---- MODULE Spec2Model ----
(***************************************************************************)
(* The ticketed (redis) session store of oauth2-proxy, with the session    *)
(* state codec it stores and the signed cookie envelope it hands out.      *)
(*                                                                         *)
(* Strings are sequences of one-character strings, byte slices are         *)
(* sequences of numbers 0..255.  Time is counted in hours.                 *)
(***************************************************************************)
EXTENDS Integers, Sequences, FiniteSets, TLC

\* ------------------------------------------------------------------ bounds

\* The clock runs from 0 to MaxTime hours.
MaxTime == 3

\* At most MaxTickets tickets are minted in one behaviour.
MaxTickets == 2

\* At most MaxCookies different cookies are handed out in one behaviour.
MaxCookies == 2

\* ------------------------------------------------------- program constants

\* newTicket: rawID := make([]byte, 16)
RawIDLen == 16

\* newTicket: secret := make([]byte, aes.BlockSize)
AesBlockSize == 16

\* Clear: time.Hour * -1, in hours
ClearExpires == -1

\* store.CookieOptions.Expire, in hours (the deployment's cookie lifetime)
Expire == 2

\* store.CookieOptions.Name
CookieName == <<"c", "k">>

\* store.CookieOptions.Secret
CookieSecret == <<"S", "K">>

\* ----------------------------------------------------------------- strings

EmptyStr == <<>>

\* The element of a one-element set: Only({e(x) : x \in {v}}) is e(v), with v
\* computed once
Only(S) == CHOOSE x \in S : TRUE

\* The positions of character c in s
SepPos(s, c) == {i \in 1..Len(s) : s[i] = c}

\* s cut at the positions P, which are left out
SplitAt(s, P) ==
    [k \in 1..(Cardinality(P) + 1) |->
        SubSeq(s,
               IF k = 1 THEN 1
               ELSE (CHOOSE p \in P : Cardinality({q \in P : q < p}) = k - 2) + 1,
               IF k = Cardinality(P) + 1 THEN Len(s)
               ELSE (CHOOSE p \in P : Cardinality({q \in P : q < p}) = k - 1) - 1)]

\* strings.Split(s, c) for a one-character separator
Split(s, c) == SplitAt(s, SepPos(s, c))

\* strings.HasPrefix
HasPrefix(s, p) == Len(s) >= Len(p) /\ SubSeq(s, 1, Len(p)) = p

\* strings.TrimPrefix
TrimPrefix(s, p) == IF HasPrefix(s, p) THEN SubSeq(s, Len(p) + 1, Len(s)) ELSE s

Digits == <<"0", "1", "2", "3", "4", "5", "6", "7", "8", "9">>

RECURSIVE Itoa(_)
\* strconv.Itoa / the decimal Unix time of a cookie, for n >= 0
Itoa(n) == IF n < 10 THEN <<Digits[n + 1]>> ELSE Append(Itoa(n \div 10), Digits[(n % 10) + 1])

IsNumber(s) == s # <<>> /\ \A i \in 1..Len(s) : \E d \in 1..10 : Digits[d] = s[i]

RECURSIVE Atoi(_)
\* strconv.Atoi on a string IsNumber accepts
Atoi(s) ==
    IF s = <<>> THEN 0
    ELSE 10 * Atoi(SubSeq(s, 1, Len(s) - 1)) + ((CHOOSE d \in 1..10 : Digits[d] = s[Len(s)]) - 1)

\* --------------------------------------------------------------------- hex

HexDigits == <<"0", "1", "2", "3", "4", "5", "6", "7", "8", "9", "a", "b", "c", "d", "e", "f">>

HexAccepted == {HexDigits[i] : i \in 1..16} \cup {"A", "B", "C", "D", "E", "F"}

RECURSIVE HexEncodeToString(_)
\* hex.EncodeToString
HexEncodeToString(bytes) ==
    IF bytes = <<>> THEN <<>>
    ELSE <<HexDigits[(Head(bytes) \div 16) + 1], HexDigits[(Head(bytes) % 16) + 1]>>
         \o HexEncodeToString(Tail(bytes))

\* hex.DecodeString succeeds (its bytes are not used by decodeTicket)
HexDecodeOk(s) == Len(s) % 2 = 0 /\ \A i \in 1..Len(s) : s[i] \in HexAccepted

\* ------------------------------------------------------- base64.RawURLEncoding

B64Alphabet ==
    <<"A", "B", "C", "D", "E", "F", "G", "H", "I", "J", "K", "L", "M", "N", "O", "P",
      "Q", "R", "S", "T", "U", "V", "W", "X", "Y", "Z", "a", "b", "c", "d", "e", "f",
      "g", "h", "i", "j", "k", "l", "m", "n", "o", "p", "q", "r", "s", "t", "u", "v",
      "w", "x", "y", "z", "0", "1", "2", "3", "4", "5", "6", "7", "8", "9", "-", "_">>

B64Chars == {B64Alphabet[i] : i \in 1..64}

B64Value == [c \in B64Chars |-> (CHOOSE i \in 1..64 : B64Alphabet[i] = c) - 1]

\* The six bits character c stands for
B64Index(c) == B64Value[c]

RECURSIVE B64Encode(_)
\* base64.RawURLEncoding.EncodeToString: three bytes to four characters, no padding
B64Encode(b) ==
    IF b = <<>> THEN <<>>
    ELSE IF Len(b) = 1 THEN
        <<B64Alphabet[(b[1] \div 4) + 1], B64Alphabet[((b[1] % 4) * 16) + 1]>>
    ELSE IF Len(b) = 2 THEN
        <<B64Alphabet[(b[1] \div 4) + 1],
          B64Alphabet[((b[1] % 4) * 16 + (b[2] \div 16)) + 1],
          B64Alphabet[((b[2] % 16) * 4) + 1]>>
    ELSE
        <<B64Alphabet[(b[1] \div 4) + 1],
          B64Alphabet[((b[1] % 4) * 16 + (b[2] \div 16)) + 1],
          B64Alphabet[((b[2] % 16) * 4 + (b[3] \div 64)) + 1],
          B64Alphabet[(b[3] % 64) + 1]>>
        \o B64Encode(SubSeq(b, 4, Len(b)))

\* base64.RawURLEncoding.DecodeString succeeds
B64DecodeOk(s) == Len(s) % 4 # 1 /\ \A i \in 1..Len(s) : s[i] \in B64Chars

RECURSIVE B64Decode(_)
\* base64.RawURLEncoding.DecodeString on a string B64DecodeOk accepts
B64Decode(s) ==
    IF Len(s) < 2 THEN <<>>
    ELSE LET a == B64Index(s[1])
             b == B64Index(s[2])
         IN  IF Len(s) = 2 THEN <<a * 4 + (b \div 16)>>
             ELSE LET c == B64Index(s[3])
                  IN  IF Len(s) = 3 THEN <<a * 4 + (b \div 16), (b % 16) * 16 + (c \div 4)>>
                      ELSE <<a * 4 + (b \div 16), (b % 16) * 16 + (c \div 4),
                             (c % 4) * 64 + B64Index(s[4])>>
                           \o B64Decode(SubSeq(s, 5, Len(s)))

\* ------------------------------------------------------------------ errors

\* A nil error
NoErr == "nil"

\* A nil *SessionState, *TicketData or *http.Cookie; a non-nil pointer to x is <<x>>
Nil == <<>>

\* ------------------------------------------------------------------ cipher

\* The text t as a session field: no layer of encryption around it
Plain(t) == [keys |-> <<>>, txt |-> t]

\* The Go empty string ""
EmptyField == Plain("")

\* Cipher.Encrypt under the cipher with secret c: one more layer of encryption
Encrypt(c, v) == [keys |-> <<c>> \o v.keys, txt |-> v.txt]

\* Cipher.Decrypt returns no error: v is a ciphertext of the cipher with secret c
DecryptOk(c, v) == v.keys # <<>> /\ Head(v.keys) = c

\* Cipher.Decrypt, where DecryptOk
Decrypt(c, v) == [keys |-> Tail(v.keys), txt |-> v.txt]

\* opts.Cipher == nil
NoCipher == "none"

\* ----------------------------------------------------------- session state

\* A nil *time.Time
NilTime == -2

\* The zero time.Time (IsZero)
ZeroTime == -1

StringFields == {"AccessToken", "IDToken", "RefreshToken", "Email", "User", "PreferredUsername"}

TimeFields == {"CreatedAt", "ExpiresOn"}

Fields == StringFields \cup TimeFields

\* SessionState{}: every field at its zero value
ZeroSession ==
    [AccessToken |-> EmptyField, IDToken |-> EmptyField, CreatedAt |-> NilTime,
     ExpiresOn |-> NilTime, RefreshToken |-> EmptyField, Email |-> EmptyField,
     User |-> EmptyField, PreferredUsername |-> EmptyField]

\* The zero value of field f
ZeroOf(f) == IF f \in TimeFields THEN NilTime ELSE EmptyField

\* json.Marshal that drops a zero time as it drops a nil pointer
MarshalOmitsZeroTime(ss) ==
    [valid |-> TRUE,
     obj |-> [f \in {g \in Fields : ss[g] # ZeroOf(g) /\ ~(g \in TimeFields /\ ss[g] = ZeroTime)}
                |-> ss[f]]]

\* json.Marshal of a SessionState: every field is `json:",omitempty"`, so an empty
\* string and a nil pointer leave no key in the object
Marshal(ss) == [valid |-> TRUE, obj |-> [f \in {g \in Fields : ss[g] # ZeroOf(g)} |-> ss[f]]]

\* json.Unmarshal returns no error
UnmarshalOk(v) == v.valid

\* json.Unmarshal into a zero SessionState, where UnmarshalOk: a missing key leaves
\* the zero value
Unmarshal(v) == [f \in Fields |-> IF f \in DOMAIN v.obj THEN v.obj[f] ELSE ZeroOf(f)]

\* Bytes that are no JSON document
Garbage == [valid |-> FALSE, obj |-> [f \in {"g"} |-> 0]]

\* ss with field f encrypted when it is not ""
EncryptField(ss, f, c) == IF ss[f] # EmptyField THEN [ss EXCEPT ![f] = Encrypt(c, ss[f])] ELSE ss

\* EncodeSessionState with the ID token left out of the encryption
EncodeSessionStateNoIDToken(s, c) ==
    IF c = NoCipher
    THEN Marshal([ZeroSession EXCEPT !.Email = s.Email, !.User = s.User,
                                     !.PreferredUsername = s.PreferredUsername])
    ELSE Marshal(EncryptField(EncryptField(EncryptField(EncryptField(EncryptField(
             s, "Email", c), "User", c), "PreferredUsername", c), "AccessToken", c),
             "RefreshToken", c))

\* EncodeSessionState that keeps the access token when there is no cipher
EncodeSessionStatePlainToken(s, c) ==
    IF c = NoCipher
    THEN Marshal([ZeroSession EXCEPT !.Email = s.Email, !.User = s.User,
                                     !.PreferredUsername = s.PreferredUsername,
                                     !.AccessToken = s.AccessToken])
    ELSE Marshal(EncryptField(EncryptField(EncryptField(EncryptField(EncryptField(EncryptField(
             s, "Email", c), "User", c), "PreferredUsername", c), "AccessToken", c),
             "IDToken", c), "RefreshToken", c))

\* SessionState.EncodeSessionState(c): the serialized session (Encrypt and
\* json.Marshal of this struct return no error)
EncodeSessionState(s, c) ==
    IF c = NoCipher
    THEN Marshal([ZeroSession EXCEPT !.Email = s.Email, !.User = s.User,
                                     !.PreferredUsername = s.PreferredUsername])
    ELSE LET s1 == EncryptField(s, "Email", c)
             s2 == EncryptField(s1, "User", c)
             s3 == EncryptField(s2, "PreferredUsername", c)
             s4 == EncryptField(s3, "AccessToken", c)
             s5 == EncryptField(s4, "IDToken", c)
             s6 == EncryptField(s5, "RefreshToken", c)
         IN  Marshal(s6)

\* SoftDecrypt that empties a field that does not decrypt
SoftDecryptBlank(ss, f, c) ==
    IF ss[f] # EmptyField /\ DecryptOk(c, ss[f]) THEN [ss EXCEPT ![f] = Decrypt(c, ss[f])]
    ELSE [ss EXCEPT ![f] = EmptyField]

\* Decrypt of a field that may hold plaintext: the raw value is kept on failure
SoftDecrypt(ss, f, c) ==
    IF ss[f] # EmptyField /\ DecryptOk(c, ss[f]) THEN [ss EXCEPT ![f] = Decrypt(c, ss[f])] ELSE ss

\* The fields whose decryption failure fails the decode, in the order of the code
HardFields == <<"PreferredUsername", "AccessToken", "IDToken", "RefreshToken">>

\* Some field of HardFields is not "" and does not decrypt
HardDecryptFails(ss, c) ==
    \E i \in 1..Len(HardFields) : ss[HardFields[i]] # EmptyField /\ ~DecryptOk(c, ss[HardFields[i]])

\* HardDecrypt that leaves the refresh token as it is stored
HardDecryptSkipsRefresh(ss, c) ==
    [f \in Fields |->
        IF (\E i \in 1..(Len(HardFields) - 1) : HardFields[i] = f) /\ ss[f] # EmptyField
        THEN Decrypt(c, ss[f]) ELSE ss[f]]

\* Every field of HardFields that is not "" decrypted
HardDecrypt(ss, c) ==
    [f \in Fields |->
        IF (\E i \in 1..Len(HardFields) : HardFields[i] = f) /\ ss[f] # EmptyField
        THEN Decrypt(c, ss[f]) ELSE ss[f]]

\* The user left as it was decoded
DefaultUserOff(ss) == ss

\* ss.User = ss.Email when ss.User is ""
DefaultUser(ss) == IF ss.User = EmptyField THEN [ss EXCEPT !.User = ss.Email] ELSE ss

\* DecodeSessionState that returns what it has when a field does not decrypt
DecodeSessionStatePartial(v, c) ==
    IF ~UnmarshalOk(v) THEN [err |-> "error unmarshalling session", session |-> Nil]
    ELSE LET ss == Unmarshal(v)
         IN  IF c = NoCipher
             THEN [err |-> NoErr,
                   session |-> <<DefaultUser([ZeroSession EXCEPT !.Email = ss.Email, !.User = ss.User,
                                                   !.PreferredUsername = ss.PreferredUsername])>>]
             ELSE LET soft == SoftDecrypt(SoftDecrypt(ss, "Email", c), "User", c)
                  IN  IF HardDecryptFails(soft, c)
                      THEN [err |-> NoErr, session |-> <<DefaultUser(soft)>>]
                      ELSE [err |-> NoErr, session |-> <<DefaultUser(HardDecrypt(soft, c))>>]

\* DecodeSessionState that answers bytes it cannot parse with the zero session
DecodeSessionStateZeroOnGarbage(v, c) ==
    IF ~UnmarshalOk(v) THEN [err |-> NoErr, session |-> <<ZeroSession>>]
    ELSE LET ss == Unmarshal(v)
         IN  IF c = NoCipher
             THEN [err |-> NoErr,
                   session |-> <<DefaultUser([ZeroSession EXCEPT !.Email = ss.Email, !.User = ss.User,
                                                   !.PreferredUsername = ss.PreferredUsername])>>]
             ELSE LET soft == SoftDecrypt(SoftDecrypt(ss, "Email", c), "User", c)
                  IN  IF HardDecryptFails(soft, c)
                      THEN [err |-> "decrypt failed", session |-> Nil]
                      ELSE [err |-> NoErr, session |-> <<DefaultUser(HardDecrypt(soft, c))>>]

\* DecodeSessionState(v, c): [err, session]
DecodeSessionState(v, c) ==
    IF ~UnmarshalOk(v) THEN [err |-> "error unmarshalling session", session |-> Nil]
    ELSE LET ss == Unmarshal(v)
         IN  IF c = NoCipher
             THEN [err |-> NoErr,
                   session |-> <<DefaultUser([ZeroSession EXCEPT !.Email = ss.Email, !.User = ss.User,
                                                   !.PreferredUsername = ss.PreferredUsername])>>]
             ELSE LET soft == SoftDecrypt(SoftDecrypt(ss, "Email", c), "User", c)
                  IN  IF HardDecryptFails(soft, c)
                      THEN [err |-> "decrypt failed", session |-> Nil]
                      ELSE [err |-> NoErr, session |-> <<DefaultUser(HardDecrypt(soft, c))>>]

\* ----------------------------------------------------------- cookie signer

\* A cookie value "value|timestamp|signature" is the sequence of its parts between
\* the pipes, <<value, timestamp, signature>>; "" is the sequence of no part.

\* cookieSignature: the MAC of (name, value, epoch) under the secret with hash
\* algo, as an ideal MAC: equal exactly when made from the same inputs
cookieSignature(algo, secret, name, value, epoch) == <<algo, secret, name, value, epoch>>

\* checkSignature that knows the current signature only
checkSignatureCurrentOnly(sig, secret, name, value, epoch) ==
    sig = cookieSignature(<<"sha256">>, secret, name, value, epoch)

\* checkSignature: the current (SHA-256) or the legacy (SHA-1) signature
checkSignature(sig, secret, name, value, epoch) ==
    \/ sig = cookieSignature(<<"sha256">>, secret, name, value, epoch)
    \/ sig = cookieSignature(<<"sha1">>, secret, name, value, epoch)

\* encryption.SignedValue: value|timestamp|signature
SignedValue(secret, name, value, t) ==
    <<value, Itoa(t), cookieSignature(<<"sha256">>, secret, name, value, Itoa(t))>>

\* Validate that does not look at the age of the cookie
ValidateAnyAge(cookie, secret, expiration, t) ==
    LET parts == cookie.Value
        bad == [ok |-> FALSE, val |-> EmptyStr, ts |-> ZeroTime]
    IN  IF Len(parts) # 3 THEN bad
        ELSE IF ~checkSignature(parts[3], secret, cookie.Name, parts[1], parts[2]) THEN bad
        ELSE IF ~IsNumber(parts[2]) THEN bad
        ELSE LET ts == Atoi(parts[2])
             IN  IF ts > t THEN bad
                 ELSE [ok |-> TRUE, val |-> parts[1], ts |-> ts]

\* encryption.Validate(cookie, secret, expiration) at time t: [ok, val, ts]
Validate(cookie, secret, expiration, t) ==
    LET parts == cookie.Value
        bad == [ok |-> FALSE, val |-> EmptyStr, ts |-> ZeroTime]
    IN  IF Len(parts) # 3 THEN bad
        ELSE IF ~checkSignature(parts[3], secret, cookie.Name, parts[1], parts[2]) THEN bad
        ELSE IF ~IsNumber(parts[2]) THEN bad
        ELSE LET ts == Atoi(parts[2])
             IN  IF ts > t \/ t - ts > expiration THEN bad
                 ELSE [ok |-> TRUE, val |-> parts[1], ts |-> ts]

\* cookies.MakeCookieFromOptions: the cookie of this name and value that
\* expires `expiration` after t
MakeCookieFromOptions(name, value, expiration, t) ==
    [Name |-> name, Value |-> value, Expires |-> t + expiration]

\* SessionStore.makeCookie: the value is signed unless it is ""
makeCookie(value, expires, t) ==
    MakeCookieFromOptions(CookieName,
                          IF value # EmptyStr THEN SignedValue(CookieSecret, CookieName, value, t)
                          ELSE value,
                          expires, t)

\* ------------------------------------------------------------------ tickets

\* io.ReadFull(rand.Reader, b) for the k-th draw of n bytes: draws differ
RandRead(k, n) == [i \in 1..n |-> (37 * k + 11 * i) % 256]

\* newTicket with one secret for every ticket
newTicketFixedSecret(r, ok) ==
    IF ~ok THEN [err |-> "failed to create new ticket ID", ticket |-> Nil]
    ELSE [err |-> NoErr,
          ticket |-> <<[TicketID |-> HexEncodeToString(RandRead(2 * r + 1, RawIDLen)),
                        Secret |-> RandRead(2, AesBlockSize)]>>]

\* newTicket with a secret of half the AES block size
newTicketShortSecret(r, ok) ==
    IF ~ok THEN [err |-> "failed to create new ticket ID", ticket |-> Nil]
    ELSE [err |-> NoErr,
          ticket |-> <<[TicketID |-> HexEncodeToString(RandRead(2 * r + 1, RawIDLen)),
                        Secret |-> RandRead(2 * r + 2, AesBlockSize \div 2)]>>]

\* newTicket() as the (r+1)-th ticket minted; ok: rand.Reader delivers.
\* [err, ticket]
newTicket(r, ok) ==
    IF ~ok THEN [err |-> "failed to create new ticket ID", ticket |-> Nil]
    ELSE [err |-> NoErr,
          ticket |-> <<[TicketID |-> HexEncodeToString(RandRead(2 * r + 1, RawIDLen)),
                        Secret |-> RandRead(2 * r + 2, AesBlockSize)]>>]

\* TicketData.asHandle(prefix)
asHandle(ticket, prefix) == prefix \o <<"-">> \o ticket.TicketID

\* encodeTicket with the secret in hexadecimal
encodeTicketHexSecret(ticket, prefix) ==
    asHandle(ticket, prefix) \o <<".">> \o HexEncodeToString(ticket.Secret)

\* TicketData.encodeTicket(prefix)
encodeTicket(ticket, prefix) == asHandle(ticket, prefix) \o <<".">> \o B64Encode(ticket.Secret)

\* decodeTicket(cookieName, ticketString): [err, ticket]
decodeTicket(cookieName, ticketString) ==
    IF ~HasPrefix(ticketString, cookieName \o <<"-">>)
    THEN [err |-> "failed to decode ticket handle", ticket |-> Nil]
    ELSE Only({
        IF Len(ticketParts) # 2
        THEN [err |-> "failed to decode ticket", ticket |-> Nil]
        ELSE IF ~HexDecodeOk(ticketParts[1])
        THEN [err |-> "server ticket failed sanity checks", ticket |-> Nil]
        ELSE IF ~B64DecodeOk(ticketParts[2])
        THEN [err |-> "failed to decode initialization vector", ticket |-> Nil]
        ELSE [err |-> NoErr,
              ticket |-> <<[TicketID |-> ticketParts[1], Secret |-> B64Decode(ticketParts[2])]>>]
        : ticketParts \in {Split(TrimPrefix(ticketString, cookieName \o <<"-">>), ".")}})

\* aes.NewCipher(key) returns no error: an AES-128, -192 or -256 key
AesKeyOk(key) == Len(key) \in {16, 24, 32}

\* cipher.NewCFBEncrypter(block, iv).XORKeyStream: the bytes of value under key and iv
CFBEncrypt(key, iv, value) == [key |-> key, iv |-> iv, pt |-> value]

\* cipher.NewCFBDecrypter(block, iv).XORKeyStream: the plaintext under the key and
\* iv it was encrypted with, other bytes otherwise
CFBDecrypt(key, iv, bytes) == IF bytes.key = key /\ bytes.iv = iv THEN bytes.pt ELSE Garbage

\* ------------------------------------------------------------- redis client

\* A cache with no key
EmptyCache == [k \in {} |-> 0]

\* Client.Get(ctx, key) on cache c; up: the server answers. [err, val]
ClientGet(c, key, up) ==
    IF ~up THEN [err |-> "redis: connection refused", val |-> Nil]
    ELSE IF key \notin DOMAIN c THEN [err |-> "redis: nil", val |-> Nil]
    ELSE [err |-> NoErr, val |-> <<c[key].val>>]

\* Client.Set(ctx, key, value, expiration) at time t. [err, cache]
ClientSet(c, key, value, expiration, up, t) ==
    IF ~up THEN [err |-> "redis: connection refused", cache |-> c]
    ELSE [err |-> NoErr,
          cache |-> [k \in DOMAIN c \cup {key} |->
                        IF k = key THEN [val |-> value, exp |-> t + expiration] ELSE c[k]]]

\* Client.Del(ctx, key). [err, cache]
ClientDel(c, key, up) ==
    IF ~up THEN [err |-> "redis: connection refused", cache |-> c]
    ELSE [err |-> NoErr, cache |-> [k \in DOMAIN c \ {key} |-> c[k]]]

\* The server drops the keys whose TTL has elapsed at time t
ExpireKeys(c, t) == [k \in {h \in DOMAIN c : c[h].exp > t} |-> c[k]]

\* ------------------------------------------------------------ session store

\* req.Cookie(store.CookieOptions.Name): the request is Nil (http.ErrNoCookie) or
\* <<cookie>>
NoCookie == Nil

\* A ticket of newTicket as the result of getTicket
Minted(mint) == [err |-> mint.err, ticket |-> mint.ticket, minted |-> TRUE]

\* getTicket that decodes the cookie's value without validating the cookie
getTicketUnvalidated(requestCookie, r, randOk, t) ==
    IF requestCookie = Nil THEN Minted(newTicket(r, randOk))
    ELSE Only({
        IF d.err # NoErr THEN Minted(newTicket(r, randOk))
        ELSE [err |-> NoErr, ticket |-> d.ticket, minted |-> FALSE]
        : d \in {decodeTicket(CookieName, requestCookie[1].Value[1])}})

\* SessionStore.getTicket(requestCookie) at time t, as the (r+1)-th mint.
\* [err, ticket, minted]
getTicket(requestCookie, r, randOk, t) ==
    IF requestCookie = Nil THEN Minted(newTicket(r, randOk))
    ELSE Only({
        IF ~v.ok THEN Minted(newTicket(r, randOk))
        ELSE Only({
            IF d.err # NoErr THEN Minted(newTicket(r, randOk))
            ELSE [err |-> NoErr, ticket |-> d.ticket, minted |-> FALSE]
            : d \in {decodeTicket(CookieName, v.val)}})
        : v \in {Validate(requestCookie[1], CookieSecret, Expire, t)}})

\* storeTicket that drops the error of Set
storeTicketIgnoresSet(c, value, expiration, g, up, t) ==
    IF ~AesKeyOk(g.ticket[1].Secret)
    THEN [err |-> "error initiating cipher block", ticketString |-> EmptyStr,
          cache |-> c, ticket |-> g.ticket, minted |-> g.minted]
    ELSE Only({
        IF set.err # NoErr
        THEN [err |-> NoErr, ticketString |-> encodeTicket(g.ticket[1], CookieName),
              cache |-> c, ticket |-> g.ticket, minted |-> g.minted]
        ELSE [err |-> NoErr, ticketString |-> encodeTicket(g.ticket[1], CookieName),
              cache |-> set.cache, ticket |-> g.ticket, minted |-> g.minted]
        : set \in {ClientSet(c, asHandle(g.ticket[1], CookieName),
                             CFBEncrypt(g.ticket[1].Secret, g.ticket[1].Secret, value),
                             expiration, up, t)}})

\* storeTicket that writes the entry with twice the expiration
storeTicketDoubleTTL(c, value, expiration, g, up, t) ==
    IF ~AesKeyOk(g.ticket[1].Secret)
    THEN [err |-> "error initiating cipher block", ticketString |-> EmptyStr,
          cache |-> c, ticket |-> g.ticket, minted |-> g.minted]
    ELSE Only({
        IF set.err # NoErr
        THEN [err |-> set.err, ticketString |-> EmptyStr, cache |-> c,
              ticket |-> g.ticket, minted |-> g.minted]
        ELSE [err |-> NoErr, ticketString |-> encodeTicket(g.ticket[1], CookieName),
              cache |-> set.cache, ticket |-> g.ticket, minted |-> g.minted]
        : set \in {ClientSet(c, asHandle(g.ticket[1], CookieName),
                             CFBEncrypt(g.ticket[1].Secret, g.ticket[1].Secret, value),
                             expiration + expiration, up, t)}})

\* storeTicket that writes the entry under the encoded ticket
storeTicketKeyWithSecret(c, value, expiration, g, up, t) ==
    IF ~AesKeyOk(g.ticket[1].Secret)
    THEN [err |-> "error initiating cipher block", ticketString |-> EmptyStr,
          cache |-> c, ticket |-> g.ticket, minted |-> g.minted]
    ELSE Only({
        IF set.err # NoErr
        THEN [err |-> set.err, ticketString |-> EmptyStr, cache |-> c,
              ticket |-> g.ticket, minted |-> g.minted]
        ELSE [err |-> NoErr, ticketString |-> encodeTicket(g.ticket[1], CookieName),
              cache |-> set.cache, ticket |-> g.ticket, minted |-> g.minted]
        : set \in {ClientSet(c, encodeTicket(g.ticket[1], CookieName),
                             CFBEncrypt(g.ticket[1].Secret, g.ticket[1].Secret, value),
                             expiration, up, t)}})

\* storeTicket that leaves an entry that is already there (SETNX for SET)
storeTicketIfAbsent(c, value, expiration, g, up, t) ==
    IF ~AesKeyOk(g.ticket[1].Secret)
    THEN [err |-> "error initiating cipher block", ticketString |-> EmptyStr,
          cache |-> c, ticket |-> g.ticket, minted |-> g.minted]
    ELSE Only({
        IF set.err # NoErr
        THEN [err |-> set.err, ticketString |-> EmptyStr, cache |-> c,
              ticket |-> g.ticket, minted |-> g.minted]
        ELSE [err |-> NoErr, ticketString |-> encodeTicket(g.ticket[1], CookieName),
              cache |-> IF asHandle(g.ticket[1], CookieName) \in DOMAIN c THEN c ELSE set.cache,
              ticket |-> g.ticket, minted |-> g.minted]
        : set \in {ClientSet(c, asHandle(g.ticket[1], CookieName),
                             CFBEncrypt(g.ticket[1].Secret, g.ticket[1].Secret, value),
                             expiration, up, t)}})

\* storeValue once the ticket is there: encrypt under the ticket's secret, write to
\* redis, encode the ticket
storeTicket(c, value, expiration, g, up, t) ==
    IF ~AesKeyOk(g.ticket[1].Secret)
    THEN [err |-> "error initiating cipher block", ticketString |-> EmptyStr,
          cache |-> c, ticket |-> g.ticket, minted |-> g.minted]
    ELSE Only({
        IF set.err # NoErr
        THEN [err |-> set.err, ticketString |-> EmptyStr, cache |-> c,
              ticket |-> g.ticket, minted |-> g.minted]
        ELSE [err |-> NoErr, ticketString |-> encodeTicket(g.ticket[1], CookieName),
              cache |-> set.cache, ticket |-> g.ticket, minted |-> g.minted]
        : set \in {ClientSet(c, asHandle(g.ticket[1], CookieName),
                             CFBEncrypt(g.ticket[1].Secret, g.ticket[1].Secret, value),
                             expiration, up, t)}})

\* SessionStore.storeValue(ctx, value, expiration, requestCookie).
\* [err, ticketString, cache, ticket, minted]
storeValue(c, value, expiration, requestCookie, r, randOk, up, t) ==
    Only({
        IF g.err # NoErr
        THEN [err |-> "error getting ticket", ticketString |-> EmptyStr, cache |-> c,
              ticket |-> Nil, minted |-> g.minted]
        ELSE storeTicket(c, value, expiration, g, up, t)
        : g \in {getTicket(requestCookie, r, randOk, t)}})

\* s.CreatedAt == nil || s.CreatedAt.IsZero()
CreatedAtUnset(s) == s.CreatedAt = NilTime \/ s.CreatedAt = ZeroTime

\* Save stamping CreatedAt at every call
StampCreatedAtAlways(s, t) == [s EXCEPT !.CreatedAt = t]

\* Save: if s.CreatedAt is unset, it becomes time.Now()
StampCreatedAt(s, t) == IF CreatedAtUnset(s) THEN [s EXCEPT !.CreatedAt = t] ELSE s

\* Save that signs the cookie with the time of the call
SaveSignsNow(c, req, s, ci, r, randOk, up, t) ==
    Only({
        IF sv.err # NoErr
        THEN [err |-> sv.err, resp |-> <<>>, cache |-> sv.cache, s |-> StampCreatedAt(s, t),
              ticket |-> sv.ticket, minted |-> sv.minted]
        ELSE [err |-> NoErr,
              resp |-> <<makeCookie(sv.ticketString, Expire, t)>>,
              cache |-> sv.cache, s |-> StampCreatedAt(s, t), ticket |-> sv.ticket,
              minted |-> sv.minted]
        : sv \in {storeValue(c, EncodeSessionState(StampCreatedAt(s, t), ci), Expire, req,
                             r, randOk, up, t)}})

\* SessionStore.Save(rw, req, s) at time t with cipher ci.
\* [err, resp, cache, s, ticket, minted]: resp the cookies set on rw, s the caller's
\* session after the call
Save(c, req, s, ci, r, randOk, up, t) ==
    Only({
        IF sv.err # NoErr
        THEN [err |-> sv.err, resp |-> <<>>, cache |-> sv.cache, s |-> StampCreatedAt(s, t),
              ticket |-> sv.ticket, minted |-> sv.minted]
        ELSE [err |-> NoErr,
              resp |-> <<makeCookie(sv.ticketString, Expire, StampCreatedAt(s, t).CreatedAt)>>,
              cache |-> sv.cache, s |-> StampCreatedAt(s, t), ticket |-> sv.ticket,
              minted |-> sv.minted]
        : sv \in {storeValue(c, EncodeSessionState(StampCreatedAt(s, t), ci), Expire, req,
                             r, randOk, up, t)}})

\* loadBytes that answers a failed lookup with an empty session
loadBytesLenient(ticket, got, ci) ==
    IF got.err # NoErr THEN [err |-> NoErr, session |-> <<ZeroSession>>]
    ELSE IF ~AesKeyOk(ticket.Secret)
    THEN [err |-> "crypto/aes: invalid key size", session |-> Nil]
    ELSE Only({
        IF dec.err # NoErr THEN [err |-> dec.err, session |-> Nil]
        ELSE [err |-> NoErr, session |-> dec.session]
        : dec \in {DecodeSessionState(CFBDecrypt(ticket.Secret, ticket.Secret, got.val[1]), ci)}})

\* loadSessionFromString once the bytes are there: decrypt under the ticket's
\* secret, decode
loadBytes(ticket, got, ci) ==
    IF got.err # NoErr THEN [err |-> got.err, session |-> Nil]
    ELSE IF ~AesKeyOk(ticket.Secret)
    THEN [err |-> "crypto/aes: invalid key size", session |-> Nil]
    ELSE Only({
        IF dec.err # NoErr THEN [err |-> dec.err, session |-> Nil]
        ELSE [err |-> NoErr, session |-> dec.session]
        : dec \in {DecodeSessionState(CFBDecrypt(ticket.Secret, ticket.Secret, got.val[1]), ci)}})

\* SessionStore.loadSessionFromString(ctx, value). [err, session]
loadSessionFromString(c, value, ci, up) ==
    Only({
        IF d.err # NoErr THEN [err |-> d.err, session |-> Nil]
        ELSE loadBytes(d.ticket[1], ClientGet(c, asHandle(d.ticket[1], CookieName), up), ci)
        : d \in {decodeTicket(CookieName, value)}})

\* SessionStore.Load(req) at time t. [err, session]
Load(c, req, ci, up, t) ==
    IF req = Nil
    THEN [err |-> "error loading session: http: named cookie not present", session |-> Nil]
    ELSE Only({
        IF ~v.ok THEN [err |-> "cookie signature not valid", session |-> Nil]
        ELSE Only({
            IF l.err # NoErr
            THEN [err |-> "error loading session", session |-> Nil]
            ELSE [err |-> NoErr, session |-> l.session]
            : l \in {loadSessionFromString(c, v.val, ci, up)}})
        : v \in {Validate(req[1], CookieSecret, Expire, t)}})

\* clearTicket that reports the key and leaves it in the cache
clearTicketKeepsEntry(c, d, up, clearCookie) ==
    IF d.ticket = Nil
    THEN [err |-> NoErr, resp |-> <<clearCookie>>, cache |-> c, del |-> Nil]
    ELSE [err |-> NoErr, resp |-> <<clearCookie>>, cache |-> c,
          del |-> <<asHandle(d.ticket[1], CookieName)>>]

\* clearTicket that returns the error of decodeTicket
clearTicketStrict(c, d, up, clearCookie) ==
    IF d.ticket = Nil
    THEN [err |-> d.err, resp |-> <<clearCookie>>, cache |-> c, del |-> Nil]
    ELSE Only({
        IF del.err # NoErr
        THEN [err |-> "error clearing cookie from redis", resp |-> <<clearCookie>>,
              cache |-> del.cache, del |-> <<asHandle(d.ticket[1], CookieName)>>]
        ELSE [err |-> NoErr, resp |-> <<clearCookie>>, cache |-> del.cache,
              del |-> <<asHandle(d.ticket[1], CookieName)>>]
        : del \in {ClientDel(c, asHandle(d.ticket[1], CookieName), up)}})

\* clearTicket that drops the error of Del
clearTicketIgnoresDel(c, d, up, clearCookie) ==
    IF d.ticket = Nil
    THEN [err |-> NoErr, resp |-> <<clearCookie>>, cache |-> c, del |-> Nil]
    ELSE Only({
        [err |-> NoErr, resp |-> <<clearCookie>>, cache |-> del.cache,
         del |-> <<asHandle(d.ticket[1], CookieName)>>]
        : del \in {ClientDel(c, asHandle(d.ticket[1], CookieName), up)}})

\* clearTicket that empties the cache (FLUSHALL for DEL)
clearTicketFlushesAll(c, d, up, clearCookie) ==
    IF d.ticket = Nil
    THEN [err |-> NoErr, resp |-> <<clearCookie>>, cache |-> c, del |-> Nil]
    ELSE Only({
        IF del.err # NoErr
        THEN [err |-> "error clearing cookie from redis", resp |-> <<clearCookie>>,
              cache |-> del.cache, del |-> <<asHandle(d.ticket[1], CookieName)>>]
        ELSE [err |-> NoErr, resp |-> <<clearCookie>>, cache |-> EmptyCache,
              del |-> <<asHandle(d.ticket[1], CookieName)>>]
        : del \in {ClientDel(c, asHandle(d.ticket[1], CookieName), up)}})

\* Clear once the cookie is validated: delete the key of its ticket, if it decodes
\* to one
clearTicket(c, d, up, clearCookie) ==
    IF d.ticket = Nil
    THEN [err |-> NoErr, resp |-> <<clearCookie>>, cache |-> c, del |-> Nil]
    ELSE Only({
        IF del.err # NoErr
        THEN [err |-> "error clearing cookie from redis", resp |-> <<clearCookie>>,
              cache |-> del.cache, del |-> <<asHandle(d.ticket[1], CookieName)>>]
        ELSE [err |-> NoErr, resp |-> <<clearCookie>>, cache |-> del.cache,
              del |-> <<asHandle(d.ticket[1], CookieName)>>]
        : del \in {ClientDel(c, asHandle(d.ticket[1], CookieName), up)}})

\* Clear that takes a cookie failing Validate for no cookie
ClearLenient(c, req, up, t) ==
    IF req = Nil
    THEN [err |-> NoErr, resp |-> <<makeCookie(EmptyStr, ClearExpires, t)>>, cache |-> c,
          del |-> Nil]
    ELSE Only({
        IF ~v.ok
        THEN [err |-> NoErr,
              resp |-> <<makeCookie(EmptyStr, ClearExpires, t)>>, cache |-> c, del |-> Nil]
        ELSE clearTicket(c, decodeTicket(CookieName, v.val), up,
                         makeCookie(EmptyStr, ClearExpires, t))
        : v \in {Validate(req[1], CookieSecret, Expire, t)}})

\* Clear that sets the clearing cookie after the cookie is validated
ClearCookieAfterValidate(c, req, up, t) ==
    IF req = Nil
    THEN [err |-> NoErr, resp |-> <<makeCookie(EmptyStr, ClearExpires, t)>>, cache |-> c,
          del |-> Nil]
    ELSE Only({
        IF ~v.ok
        THEN [err |-> "cookie signature not valid", resp |-> <<>>, cache |-> c, del |-> Nil]
        ELSE clearTicket(c, decodeTicket(CookieName, v.val), up,
                         makeCookie(EmptyStr, ClearExpires, t))
        : v \in {Validate(req[1], CookieSecret, Expire, t)}})

\* SessionStore.Clear(rw, req) at time t. [err, resp, cache, del]: resp the cookies
\* set on rw, del the key Client.Del was called with, if it was
Clear(c, req, up, t) ==
    IF req = Nil
    THEN [err |-> NoErr, resp |-> <<makeCookie(EmptyStr, ClearExpires, t)>>, cache |-> c,
          del |-> Nil]
    ELSE Only({
        IF ~v.ok
        THEN [err |-> "cookie signature not valid",
              resp |-> <<makeCookie(EmptyStr, ClearExpires, t)>>, cache |-> c, del |-> Nil]
        ELSE clearTicket(c, decodeTicket(CookieName, v.val), up,
                         makeCookie(EmptyStr, ClearExpires, t))
        : v \in {Validate(req[1], CookieSecret, Expire, t)}})

\* ------------------------------------------------------------------ inputs

\* The session of the store's tests: every field set
Alice1 ==
    [AccessToken |-> Plain("AccessToken"), IDToken |-> Plain("IDToken"), CreatedAt |-> NilTime,
     ExpiresOn |-> 1, RefreshToken |-> Plain("RefreshToken"), Email |-> Plain("alice@example.com"),
     User |-> Plain("alice"), PreferredUsername |-> Plain("al")]

\* A session of another user, with an email and no user name, and a zero CreatedAt
Bob1 ==
    [ZeroSession EXCEPT !.Email = Plain("bob@example.com"), !.AccessToken = Plain("BobToken"),
                        !.CreatedAt = ZeroTime]

BaseSessions == {Alice1, Bob1}

\* The client a session belongs to
Owner(s) == IF s.Email = Plain("bob@example.com") THEN "bob" ELSE "alice"

\* A signed cookie value with one character of its value changed
TamperValue(v) ==
    LET p == Len(CookieName) + 2
    IN  [v EXCEPT ![1][p] = IF v[1][p] = "0" THEN "1" ELSE "0"]

\* A session of another session implementation
Broken == <<"B", "r", "o", "k", "e", "n">>

\* The request's cookie of name CookieOptions.Name
Cookie(v) == <<[Name |-> CookieName, Value |-> v]>>

VARIABLES
    now,        \* time.Now(), in hours
    cipher,     \* store.CookieCipher: its secret, or NoCipher
    cache,      \* the redis server: key -> [val, exp]
    randCtr,    \* the tickets minted from rand.Reader
    jar,        \* the cookies Save has handed to clients: [who, val, handle]
    written,    \* per cache key, the last Save that wrote it and was not cleared since
    cleared,    \* the cookies of jar a successful Clear was called with, not saved since
    mintLog,    \* the tickets of the Saves whose request carried no recoverable ticket
    op          \* the call of the store that has just returned: its request and what
                \* it returned; Idle when the caller has taken the result

vars == <<now, cipher, cache, randCtr, jar, written, cleared, mintLog, op>>

\* No call has just returned; as a call of the given name, the fields it leaves alone
Idle(name) ==
    [name |-> name, req |-> NoCookie, up |-> TRUE, randOk |-> TRUE, err |-> NoErr, session |-> Nil,
     resp |-> <<>>, arg |-> Nil, s |-> Nil, ticket |-> Nil, minted |-> FALSE, del |-> Nil]

\* The requests a client may send: no cookie, a cookie Save handed out, such a
\* cookie tampered with, or a cookie the proxy signed now around another value
Requests ==
    {NoCookie}
    \cup {Cookie(e.val) : e \in jar}
    \cup {Cookie(TamperValue(e.val)) : e \in jar}
    \cup {Cookie(SignedValue(CookieSecret, CookieName, Broken, now))}

\* The sessions a caller may save: a new one, or one it saved before
SaveInputs ==
    BaseSessions \cup {written[h].s : h \in DOMAIN written}

\* The request carries a cookie that passes Validate and decodes to a ticket
Recoverable(req, t) ==
    /\ req # Nil
    /\ \E v \in {Validate(req[1], CookieSecret, Expire, t)} :
          v.ok /\ decodeTicket(CookieName, v.val).err = NoErr

\* f without key k
Without(f, k) == [x \in DOMAIN f \ {k} |-> f[x]]

Init ==
    /\ now = 0
    /\ cipher \in {NoCipher, "cipher-secret"}
    /\ cache = EmptyCache
    /\ randCtr = 0
    /\ jar = {}
    /\ written = EmptyCache
    /\ cleared = {}
    /\ mintLog = <<>>
    /\ op = Idle("idle")

SaveStep ==
    /\ op.name = "idle"
    /\ \E s \in SaveInputs, req \in Requests, up \in BOOLEAN, randOk \in BOOLEAN :
        \E r \in {Save(cache, req, s, cipher, randCtr, randOk, up, now)} :
        \E h \in {IF r.ticket = Nil THEN EmptyStr ELSE asHandle(r.ticket[1], CookieName)} :
        \E done \in {r.err = NoErr} :
            /\ r.minted => randCtr < MaxTickets
            /\ done => Cardinality(jar \cup {[who |-> Owner(s), val |-> r.resp[1].Value,
                                              handle |-> h]}) <= MaxCookies
            /\ ~randOk => r.minted
            /\ cache' = r.cache
            /\ randCtr' = IF r.minted /\ randOk THEN randCtr + 1 ELSE randCtr
            /\ jar' = IF done
                      THEN jar \cup {[who |-> Owner(s), val |-> r.resp[1].Value, handle |-> h]}
                      ELSE jar
            /\ written' = IF done
                          THEN (h :> [cookie |-> r.resp[1].Value, s |-> r.s, at |-> now,
                                      by |-> Owner(s),
                                      pre |-> {e.val : e \in {x \in jar : x.who # Owner(s)}}])
                               @@ written
                          ELSE written
            /\ cleared' = IF done THEN {e \in cleared : e.handle # h} ELSE cleared
            /\ mintLog' = IF r.ticket # Nil /\ ~Recoverable(req, now)
                          THEN Append(mintLog, [key |-> h, secret |-> r.ticket[1].Secret])
                          ELSE mintLog
            /\ op' = [name |-> "Save", req |-> req, up |-> up, randOk |-> randOk, err |-> r.err,
                      session |-> Nil, resp |-> r.resp, arg |-> <<s>>, s |-> <<r.s>>,
                      ticket |-> r.ticket,
                      minted |-> r.minted, del |-> Nil]
            /\ UNCHANGED <<now, cipher>>

\* A Load that renews the TTL of the entry it has read
LoadStepSlidingTTL ==
    /\ op.name = "idle"
    /\ \E req \in Requests, up \in BOOLEAN :
        \E r \in {Load(cache, req, cipher, up, now)} :
            /\ op' = [Idle("Load") EXCEPT !.req = req, !.up = up, !.err = r.err,
                                          !.session = r.session]
            /\ cache' = IF r.err = NoErr
                        THEN [h \in DOMAIN cache |->
                                 IF h = asHandle(decodeTicket(CookieName, req[1].Value[1]).ticket[1],
                                                 CookieName)
                                 THEN [cache[h] EXCEPT !.exp = now + Expire] ELSE cache[h]]
                        ELSE cache
            /\ UNCHANGED <<now, cipher, randCtr, jar, written, cleared, mintLog>>

LoadStep ==
    /\ op.name = "idle"
    /\ \E req \in Requests, up \in BOOLEAN :
        \E r \in {Load(cache, req, cipher, up, now)} :
            /\ op' = [Idle("Load") EXCEPT !.req = req, !.up = up, !.err = r.err,
                                          !.session = r.session]
            /\ UNCHANGED <<now, cipher, cache, randCtr, jar, written, cleared, mintLog>>

ClearStep ==
    /\ op.name = "idle"
    /\ \E req \in Requests, up \in BOOLEAN :
        \E r \in {Clear(cache, req, up, now)} :
            /\ cache' = r.cache
            /\ written' = IF r.del # Nil /\ r.err = NoErr /\ r.del[1] \in DOMAIN written
                          THEN Without(written, r.del[1]) ELSE written
            /\ cleared' = IF r.err = NoErr /\ req # Nil
                          THEN cleared \cup {[val |-> e.val, handle |-> e.handle] :
                                                e \in {x \in jar : x.val = req[1].Value}}
                          ELSE cleared
            /\ op' = [Idle("Clear") EXCEPT !.req = req, !.up = up, !.err = r.err,
                                           !.resp = r.resp, !.del = r.del]
            /\ UNCHANGED <<now, cipher, randCtr, jar, mintLog>>

\* An hour passes; the server drops the keys whose TTL has elapsed
Tick ==
    /\ op.name = "idle"
    /\ now < MaxTime
    /\ now' = now + 1
    /\ cache' = ExpireKeys(cache, now + 1)
    /\ op' = op
    /\ UNCHANGED <<cipher, randCtr, jar, written, cleared, mintLog>>

\* Bytes that no Save of this store wrote
CorruptBytes == [key |-> <<>>, iv |-> <<>>, pt |-> Garbage]

\* Something other than this store overwrites the value of a key
Corrupt ==
    /\ op.name = "idle"
    /\ \E h \in DOMAIN cache :
        /\ cache[h].val # CorruptBytes
        /\ cache' = [cache EXCEPT ![h].val = CorruptBytes]
        /\ written' = IF h \in DOMAIN written THEN Without(written, h) ELSE written
        /\ op' = op
        /\ UNCHANGED <<now, cipher, randCtr, jar, cleared, mintLog>>

\* The caller takes the result of the call
Return ==
    /\ op.name # "idle"
    /\ op' = Idle("idle")
    /\ UNCHANGED <<now, cipher, cache, randCtr, jar, written, cleared, mintLog>>

Next == SaveStep \/ LoadStep \/ ClearStep \/ Return \/ Tick \/ Corrupt

Spec == Init /\ [][Next]_vars

\* ------------------------------------------------------------------ properties

\* The request of the call that has just returned carries a cookie Save handed out
ReqIssued == op.req # Nil /\ \E e \in jar : e.val = op.req[1].Value

\* The cache key of that cookie
ReqHandle == (CHOOSE e \in jar : e.val = op.req[1].Value).handle

\* The request's cookie passes Validate now
ReqValid == op.req # Nil /\ Validate(op.req[1], CookieSecret, Expire, now).ok

\* The request's cookie is the one of the last Save on its key, the key has not
\* been cleared or overwritten by others since, and its TTL has not elapsed
ReqWritten ==
    /\ ReqIssued
    /\ ReqHandle \in DOMAIN written
    /\ written[ReqHandle].cookie = op.req[1].Value
    /\ now < written[ReqHandle].at + Expire

\* The session Load returned carries the fields of s that survive with the store's
\* cipher: all of them with a cipher, the identity fields without
SameFields(loaded, s) ==
    IF cipher = NoCipher
    THEN /\ loaded.Email = s.Email
         /\ loaded.User = s.User
         /\ loaded.PreferredUsername = s.PreferredUsername
    ELSE loaded = s

\* s with an empty user replaced by the email
UserFromEmail(s) == [s EXCEPT !.User = IF s.User = EmptyField THEN s.Email ELSE s.User]

\* C1, as stated: a Load of the cookie a successful Save produced, before the TTL
\* elapses and with no Clear in between, returns no error and a session equal to
\* the saved one in every field that survives encoding.
C1_ReadYourWrites ==
    (op.name = "Load" /\ op.up /\ ReqWritten)
        => /\ op.err = NoErr
           /\ op.session # Nil
           /\ SameFields(op.session[1], written[ReqHandle].s)

\* C1, amended: the same, while the cookie is within its lifetime counted from the
\* session's CreatedAt, and with an empty user of the saved session read back as
\* its email.
C1_ReadYourWritesAmended ==
    (/\ op.name = "Load" /\ op.up /\ ReqWritten
     /\ now - written[ReqHandle].s.CreatedAt <= Expire)
        => /\ op.err = NoErr
           /\ op.session # Nil
           /\ SameFields(op.session[1], UserFromEmail(written[ReqHandle].s))

\* A Load of a saved session with a cipher and no user name returns it in full
C1_Witness ==
    /\ op.name = "Load" /\ op.up /\ ReqWritten
    /\ now - written[ReqHandle].s.CreatedAt <= Expire
    /\ cipher # NoCipher
    /\ written[ReqHandle].s.User = EmptyField
    /\ op.err = NoErr
    /\ op.session[1].AccessToken = Plain("BobToken")

\* C2: after a successful Clear of a cookie, the entry of its key is absent from
\* the cache, and a Load with that cookie fails and returns no session.
C2_ClearThenLoadFails ==
    /\ \A e \in cleared : e.handle \notin DOMAIN cache
    /\ (op.name = "Load" /\ op.req # Nil /\ \E e \in cleared : e.val = op.req[1].Value)
           => op.err # NoErr /\ op.session = Nil

\* A Load with a cleared cookie that still passes Validate, the cache reachable
C2_Witness ==
    /\ op.name = "Load" /\ op.up /\ ReqValid
    /\ \E e \in cleared : e.val = op.req[1].Value
    /\ op.err # NoErr

\* C3, as stated: a valid cookie a client held before another client's Save never
\* loads the state that Save wrote.
C3_NoFixation ==
    ~(/\ op.name = "Load" /\ op.err = NoErr
      /\ ReqIssued
      /\ ReqHandle \in DOMAIN written
      /\ op.req[1].Value \in written[ReqHandle].pre
      /\ SameFields(op.session[1], UserFromEmail(written[ReqHandle].s)))

\* C4: Save reuses the ticket of the request's cookie exactly when the cookie
\* passes Validate and decodes to a ticket; otherwise it mints a ticket unlike any
\* minted before and, the generator and the cache working, succeeds.
C4_GetTicketPolicy ==
    op.name = "Save" =>
        /\ Recoverable(op.req, now)
               => /\ ~op.minted
                  /\ op.ticket = decodeTicket(CookieName, op.req[1].Value[1]).ticket
        /\ (~Recoverable(op.req, now) /\ op.randOk)
               => /\ op.minted
                  /\ op.ticket # Nil
                  /\ mintLog # <<>>
                  /\ mintLog[Len(mintLog)].key = asHandle(op.ticket[1], CookieName)
                  /\ \A i \in 1..(Len(mintLog) - 1) :
                        /\ mintLog[i].key # mintLog[Len(mintLog)].key
                        /\ mintLog[i].secret # op.ticket[1].Secret
                  /\ op.up => op.err = NoErr

\* A Save whose request carries a cookie that is no ticket, after an earlier Save
C4_Witness ==
    /\ op.name = "Save" /\ op.req # Nil /\ ~Recoverable(op.req, now)
    /\ op.minted /\ op.err = NoErr
    /\ Len(mintLog) >= 2

\* The request's cookie passes Validate and decodes to a ticket whose key the
\* cache holds, with bytes a Save wrote
ReqLoadable ==
    /\ ReqValid
    /\ \E d \in {decodeTicket(CookieName, op.req[1].Value[1])} :
          /\ d.err = NoErr
          /\ asHandle(d.ticket[1], CookieName) \in DOMAIN cache
          /\ cache[asHandle(d.ticket[1], CookieName)].val # CorruptBytes

\* C5: Load returns an error or a session, never both and never neither; a
\* missing or invalid cookie, a bad ticket, a failed lookup and undecodable bytes
\* each give an error and no session.
C5_LoadErrorOrSession ==
    op.name = "Load" =>
        /\ (op.err = NoErr) <=> (op.session # Nil)
        /\ (~op.up \/ ~ReqLoadable) => (op.err # NoErr /\ op.session = Nil)

\* A Load of a valid cookie whose cache entry holds bytes that do not decode
C5_Witness ==
    /\ op.name = "Load" /\ op.up /\ ReqIssued /\ ReqValid
    /\ ReqHandle \in DOMAIN cache
    /\ cache[ReqHandle].val = CorruptBytes
    /\ op.err # NoErr /\ op.session = Nil

\* C6: the tickets Save mints for requests without a recoverable ticket have
\* pairwise different cache keys and pairwise different secrets.
C6_TicketIsolation ==
    \A i, j \in 1..Len(mintLog) :
        i < j => /\ mintLog[i].key # mintLog[j].key
                 /\ mintLog[i].secret # mintLog[j].secret

\* Two clients have each been handed a cookie of their own ticket
C6_Witness ==
    /\ Len(mintLog) = 2
    /\ \E a, b \in jar : a.who # b.who /\ a.handle # b.handle
    /\ op.name = "Save" /\ op.minted /\ op.err = NoErr

\* C7: a present cookie that fails Validate makes Load and Clear return an error,
\* one different from what they return when the cookie is absent.
C7_InvalidCookieIsAnError ==
    (op.name \in {"Load", "Clear"} /\ op.req # Nil /\ ~ReqValid)
        => /\ op.err # NoErr
           /\ op.name = "Load" => op.err # Load(cache, NoCookie, cipher, op.up, now).err
           /\ op.name = "Clear" => op.err # Clear(cache, NoCookie, op.up, now).err

\* A Clear with a cookie Save handed out that has outlived its signature
C7_Witness ==
    /\ op.name = "Clear" /\ ReqIssued /\ ~ReqValid
    /\ op.err = "cookie signature not valid"

C10_ClearDeletes ==
    (op.name = "Clear" /\ Recoverable(op.req, now))
        => \E k \in {asHandle(decodeTicket(CookieName, op.req[1].Value[1]).ticket[1],
                              CookieName)} :
              /\ op.del = <<k>>
              /\ ~op.up => op.err # NoErr
              /\ op.up => (op.err = NoErr /\ k \notin DOMAIN cache)

\* A Clear that deleted the entry of a saved session
C10_Witness ==
    /\ op.name = "Clear" /\ op.up /\ ReqIssued /\ Recoverable(op.req, now)
    /\ op.err = NoErr
    /\ op.del = <<ReqHandle>>
    /\ \E e \in cleared : e.handle = ReqHandle

\* The cache key of the ticket of the Save that has just returned
SavedHandle == asHandle(op.ticket[1], CookieName)

\* C11: a Save whose cache write fails returns an error and sets no cookie; a
\* Save that sets a cookie has returned no error and the cache holds, under the
\* ticket's key, the session encrypted under the ticket's secret.
C11_SaveCacheFailure ==
    op.name = "Save" =>
        /\ ~op.up => (op.err # NoErr /\ op.resp = <<>>)
        /\ op.err # NoErr => op.resp = <<>>
        /\ op.resp # <<>> =>
              /\ op.err = NoErr /\ op.up
              /\ SavedHandle \in DOMAIN cache
              /\ cache[SavedHandle].val =
                     CFBEncrypt(op.ticket[1].Secret, op.ticket[1].Secret,
                                EncodeSessionState(op.s[1], cipher))

\* A Save that had its ticket and failed in the cache write
C11_Witness ==
    /\ op.name = "Save" /\ ~op.up /\ op.randOk
    /\ op.ticket # Nil
    /\ op.err # NoErr /\ op.resp = <<>>

\* The request's cookie is the one of the last Save on its key, not cleared or
\* overwritten by others since
ReqLastSaved ==
    /\ ReqIssued
    /\ ReqHandle \in DOMAIN written
    /\ written[ReqHandle].cookie = op.req[1].Value

\* C12, as stated: Save writes the entry with Expire as TTL; a Load before Expire
\* has elapsed since the Save returns the saved session, a Load after Expire has
\* elapsed returns an error and no session.
C12_ExpireIsTTL ==
    /\ (op.name = "Save" /\ op.err = NoErr) => cache[SavedHandle].exp = now + Expire
    /\ (op.name = "Load" /\ op.up /\ ReqLastSaved) =>
          /\ now < written[ReqHandle].at + Expire
                => /\ op.err = NoErr /\ op.session # Nil
                   /\ SameFields(op.session[1], UserFromEmail(written[ReqHandle].s))
          /\ now >= written[ReqHandle].at + Expire
                => op.err # NoErr /\ op.session = Nil

\* C12, amended: the same, the first Load being also within Expire of the
\* session's CreatedAt, the time the cookie is signed with.
C12_ExpireIsTTLAmended ==
    /\ (op.name = "Save" /\ op.err = NoErr) => cache[SavedHandle].exp = now + Expire
    /\ (op.name = "Load" /\ op.up /\ ReqLastSaved) =>
          /\ (/\ now < written[ReqHandle].at + Expire
              /\ now - written[ReqHandle].s.CreatedAt <= Expire)
                => /\ op.err = NoErr /\ op.session # Nil
                   /\ SameFields(op.session[1], UserFromEmail(written[ReqHandle].s))
          /\ now >= written[ReqHandle].at + Expire
                => op.err # NoErr /\ op.session = Nil

\* A Load that returns the session an hour after the Save, within the TTL
C12_Witness ==
    /\ op.name = "Load" /\ op.up /\ ReqLastSaved
    /\ now > written[ReqHandle].at
    /\ now < written[ReqHandle].at + Expire
    /\ op.err = NoErr

\* The length of base64.RawURLEncoding of n bytes
B64Len(n) == (4 * n + 2) \div 3

\* C13: a successful Save sets exactly one cookie; its value is the signed
\* envelope of "<cookieName>-<ticketID>.<base64(secret)>", made of the ticket and
\* the session's CreatedAt alone, and of one length whatever the session.
C13_CookieIsTicket ==
    (op.name = "Save" /\ op.err = NoErr) =>
        /\ Len(op.resp) = 1
        /\ op.resp[1].Name = CookieName
        /\ op.resp[1].Value[1] =
               CookieName \o <<"-">> \o op.ticket[1].TicketID \o <<".">>
                   \o B64Encode(op.ticket[1].Secret)
        /\ op.resp[1].Value =
               SignedValue(CookieSecret, CookieName, op.resp[1].Value[1], op.s[1].CreatedAt)
        /\ Len(op.resp[1].Value[1]) =
               Len(CookieName) + 1 + 2 * RawIDLen + 1 + B64Len(AesBlockSize)

\* A successful Save of the session with every field set, with a cipher
C13_Witness ==
    /\ op.name = "Save" /\ op.err = NoErr
    /\ cipher # NoCipher
    /\ op.arg = <<Alice1>>
    /\ Len(op.resp) = 1

\* sub occurs in s
Contains(s, sub) == \E i \in 1..(Len(s) - Len(sub) + 1) : SubSeq(s, i, i + Len(sub) - 1) = sub

\* C14: every cache key is exactly "<cookieName>-<ticketID>" of a minted ticket
\* and holds no ticket's secret; every value Save wrote is the encoded session
\* encrypted under the secret of the key's ticket, the secret being no part of
\* what is encrypted.
C14_SecretStaysInCookie ==
    \A h \in DOMAIN cache :
        /\ \E i \in 1..Len(mintLog) :
              /\ mintLog[i].key = h
              /\ cache[h].val # CorruptBytes
                    => /\ cache[h].val.key = mintLog[i].secret
                       /\ cache[h].val.iv = mintLog[i].secret
        /\ HasPrefix(h, CookieName \o <<"-">>)
        /\ Len(h) = Len(CookieName) + 1 + 2 * RawIDLen
        /\ HexDecodeOk(TrimPrefix(h, CookieName \o <<"-">>))
        /\ \A i \in 1..Len(mintLog) : ~Contains(h, B64Encode(mintLog[i].secret))
        /\ (cache[h].val # CorruptBytes /\ h \in DOMAIN written)
              => cache[h].val.pt = EncodeSessionState(written[h].s, cipher)

\* The cache holds the sessions of two tickets
C14_Witness ==
    /\ Cardinality(DOMAIN cache) = 2
    /\ \A h \in DOMAIN cache : cache[h].val # CorruptBytes
    /\ op.name = "Load" /\ op.err = NoErr

\* C15: Save sets CreatedAt to the current time when it is unset or zero and
\* leaves a set CreatedAt, and every other field, as they are; after a
\* successful Save CreatedAt is set.
C15_CreatedAtOnce ==
    op.name = "Save" =>
        /\ op.s[1].CreatedAt =
               IF op.arg[1].CreatedAt \in {NilTime, ZeroTime} THEN now
               ELSE op.arg[1].CreatedAt
        /\ \A f \in Fields \ {"CreatedAt"} : op.s[1][f] = op.arg[1][f]
        /\ op.err = NoErr => op.s[1].CreatedAt \notin {NilTime, ZeroTime}

\* A successful Save of a session whose CreatedAt was set an earlier hour
C15_Witness ==
    /\ op.name = "Save" /\ op.err = NoErr
    /\ op.arg[1].CreatedAt \notin {NilTime, ZeroTime}
    /\ op.arg[1].CreatedAt < now
    /\ op.s[1].CreatedAt = op.arg[1].CreatedAt

\* C16: the cookie of a successful Save has the three parts value, timestamp,
\* signature; the timestamp is the session's CreatedAt, not the time of the
\* call, and the signature is over the name, the value and that timestamp.
C16_CookieTimestamp ==
    (op.name = "Save" /\ op.err = NoErr) =>
        /\ Len(op.resp[1].Value) = 3
        /\ IsNumber(op.resp[1].Value[2])
        /\ Atoi(op.resp[1].Value[2]) = op.s[1].CreatedAt
        /\ checkSignature(op.resp[1].Value[3], CookieSecret, CookieName,
                          op.resp[1].Value[1], op.resp[1].Value[2])

\* A later Save of a session: the cookie's timestamp is before the time of the call
C16_Witness ==
    /\ op.name = "Save" /\ op.err = NoErr
    /\ Len(op.resp[1].Value) = 3
    /\ Atoi(op.resp[1].Value[2]) < now
    /\ op.req # Nil

\* ------------------------------------------------------------------- codec

\* A serialized session has at most MaxEdits fields rewritten before it is decoded.
MaxEdits == 2

\* The sessions given to the codec: every string field empty or not, CreatedAt
\* nil, zero or set, ExpiresOn nil or set
CodecSessions ==
    {[AccessToken |-> a, IDToken |-> i, RefreshToken |-> r, Email |-> e, User |-> u,
      PreferredUsername |-> p, CreatedAt |-> ca, ExpiresOn |-> ex] :
        a \in {EmptyField, Plain("AccessToken")}, i \in {EmptyField, Plain("IDToken")},
        r \in {EmptyField, Plain("RefreshToken")}, e \in {EmptyField, Plain("john.doe@example.com")},
        u \in {EmptyField, Plain("john.doe")}, p \in {EmptyField, Plain("jd")},
        ca \in {NilTime, ZeroTime, 1}, ex \in {NilTime, 2}}

\* What a field of a serialized session holds when this cipher did not write it:
\* the plaintext of an older version, or the ciphertext of another key
Foreign(x) == {x, Encrypt("other-secret", x)}

\* s.EncodeSessionState(store.CookieCipher) of a session
EncodeStep ==
    /\ op.name = "idle"
    /\ \E s \in CodecSessions :
          op' = [name |-> "Encode", s |-> s, v |-> EncodeSessionState(s, cipher), edited |-> {}]
    /\ UNCHANGED <<now, cipher, cache, randCtr, jar, written, cleared, mintLog>>

\* A field of the serialized session is one this cipher did not write
RewriteField ==
    /\ op.name = "Encode"
    /\ cipher # NoCipher
    /\ Cardinality(op.edited) < MaxEdits
    /\ \E f \in (StringFields \cap DOMAIN op.v.obj) \ op.edited :
       \E x \in Foreign(op.s[f]) :
          op' = [op EXCEPT !.v.obj[f] = x, !.edited = @ \cup {f}]
    /\ UNCHANGED <<now, cipher, cache, randCtr, jar, written, cleared, mintLog>>

\* DecodeSessionState(v, store.CookieCipher) of the serialized session
DecodeStep ==
    /\ op.name = "Encode"
    /\ \E r \in {DecodeSessionState(op.v, cipher)} :
          op' = [name |-> "Decode", s |-> op.s, v |-> op.v, edited |-> op.edited,
                 err |-> r.err, session |-> r.session]
    /\ UNCHANGED <<now, cipher, cache, randCtr, jar, written, cleared, mintLog>>

\* The caller takes the decoded session
CodecReturn ==
    /\ op.name = "Decode"
    /\ op' = Idle("idle")
    /\ UNCHANGED <<now, cipher, cache, randCtr, jar, written, cleared, mintLog>>

\* Bytes arrive that this Encode did not write as they are: the serialized session
\* with one more string field present and holding "", or no JSON document at all
PayloadStep ==
    /\ op.name = "Encode"
    /\ op.edited = {}
    /\ \E v \in {Garbage} \cup {op.v}
                 \cup {[op.v EXCEPT !.obj = (f :> EmptyField) @@ op.v.obj] :
                           f \in StringFields \ DOMAIN op.v.obj} :
          op' = [name |-> "Payload", s |-> op.s, v |-> v,
                 blank |-> IF v.valid THEN DOMAIN v.obj \ DOMAIN op.v.obj ELSE {}]
    /\ UNCHANGED <<now, cipher, cache, randCtr, jar, written, cleared, mintLog>>

\* DecodeSessionState(v, store.CookieCipher) of the bytes that arrived
DecodePayload ==
    /\ op.name = "Payload"
    /\ \E r \in {DecodeSessionState(op.v, cipher)} :
          op' = [name |-> "Decoded", s |-> op.s, v |-> op.v, blank |-> op.blank,
                 err |-> r.err, session |-> r.session]
    /\ UNCHANGED <<now, cipher, cache, randCtr, jar, written, cleared, mintLog>>

\* The decoded session is encoded again: ss.EncodeSessionState(store.CookieCipher)
ReencodeStep ==
    /\ op.name = "Decoded"
    /\ op.err = NoErr
    /\ op' = [name |-> "Reencoded", s |-> op.s, v |-> op.v, blank |-> op.blank,
              session |-> op.session, w |-> EncodeSessionState(op.session[1], cipher)]
    /\ UNCHANGED <<now, cipher, cache, randCtr, jar, written, cleared, mintLog>>

\* The caller takes the error or the encoded session
PayloadReturn ==
    /\ op.name \in {"Decoded", "Reencoded"}
    /\ op' = Idle("idle")
    /\ UNCHANGED <<now, cipher, cache, randCtr, jar, written, cleared, mintLog>>

CodecNext ==
    \/ EncodeStep \/ RewriteField \/ DecodeStep \/ CodecReturn
    \/ PayloadStep \/ DecodePayload \/ ReencodeStep \/ PayloadReturn

CodecSpec == Init /\ [][CodecNext]_vars

\* C17: with a cipher, decoding what Encode wrote succeeds and gives back every
\* field of the session, an empty user replaced by the email.
C17_CodecRoundTrip ==
    (op.name = "Decode" /\ cipher # NoCipher /\ op.edited = {})
        => /\ op.err = NoErr
           /\ op.session = <<UserFromEmail(op.s)>>

\* A round trip of a session with an email, no user and a zero CreatedAt
C17_Witness ==
    /\ op.name = "Decode" /\ cipher # NoCipher /\ op.edited = {}
    /\ op.s.User = EmptyField /\ op.s.Email # EmptyField
    /\ op.s.CreatedAt = ZeroTime /\ op.s.RefreshToken # EmptyField
    /\ op.err = NoErr
    /\ op.session[1].User = op.s.Email

\* The identity fields
IdentityFields == {"Email", "User", "PreferredUsername"}

C19_LegacyFieldTolerance ==
    (/\ op.name = "Decode" /\ cipher # NoCipher
     /\ op.edited # {} /\ op.edited \subseteq {"Email", "User"})
        => /\ op.err = NoErr
           /\ op.session # Nil
           /\ op.session[1].Email =
                  IF "Email" \in op.edited THEN op.v.obj.Email ELSE op.s.Email
           /\ op.session[1].User =
                  IF "User" \in op.edited THEN op.v.obj.User
                  ELSE IF op.s.User = EmptyField THEN op.session[1].Email
                  ELSE op.s.User
           /\ \A f \in Fields \ {"Email", "User"} : op.session[1][f] = op.s[f]

\* A decode of a session whose email and user are both stored in plaintext
C19_Witness ==
    /\ op.name = "Decode" /\ cipher # NoCipher
    /\ op.edited = {"Email", "User"}
    /\ op.v.obj.Email = op.s.Email /\ op.v.obj.User = op.s.User
    /\ op.s.AccessToken # EmptyField
    /\ op.err = NoErr
    /\ op.session[1].Email = Plain("john.doe@example.com")

\* The fields of HardFields, as a set
HardSet == {HardFields[i] : i \in 1..Len(HardFields)}

\* C20: with a cipher, a serialized session one of whose preferred username,
\* access token, ID token or refresh token is not empty and does not decrypt
\* makes Decode return an error and no session.
C20_HardFieldFailure ==
    (op.name = "Decode" /\ cipher # NoCipher /\ op.edited \cap HardSet # {})
        => op.err # NoErr /\ op.session = Nil

\* A decode of a session whose refresh token is a ciphertext of another key
C20_Witness ==
    /\ op.name = "Decode" /\ cipher # NoCipher
    /\ op.edited = {"RefreshToken"}
    /\ op.v.obj.RefreshToken = Encrypt("other-secret", op.s.RefreshToken)
    /\ op.err # NoErr /\ op.session = Nil

\* C21: a decode that succeeds, with or without a cipher, never gives an empty user
\* beside a non-empty email, and gives the email as the user whenever the user it
\* decoded was empty.
C21_UserDefaultsToEmail ==
    (op.name \in {"Decode", "Decoded"} /\ op.err = NoErr)
        => /\ ~(op.session[1].User = EmptyField /\ op.session[1].Email # EmptyField)
           /\ Unmarshal(op.v).User = EmptyField => op.session[1].User = op.session[1].Email

C21_Witness ==
    /\ op.name = "Decode" /\ op.err = NoErr
    /\ cipher = NoCipher
    /\ Unmarshal(op.v).User = EmptyField
    /\ op.session[1].Email # EmptyField
    /\ op.session[1].User = op.session[1].Email

\* What an encoded session holds of the session ss: the fields that are not empty,
\* and without a cipher only those of IdentityFields
Written(ss) ==
    {f \in Fields : ss[f] # ZeroOf(f) /\ (cipher = NoCipher => f \in IdentityFields)}

C23_UnparsableIsError ==
    (op.name = "Decoded" /\ ~UnmarshalOk(op.v))
        => /\ op.err = "error unmarshalling session"
           /\ op.session = Nil

C23_Witness ==
    /\ op.name = "Decoded"
    /\ op.v = Garbage
    /\ cipher # NoCipher
    /\ op.err # NoErr /\ op.session = Nil

\* ------------------------------------------- session methods and the signer

\* IsExpired and Age read time.Now() to the nanosecond and Age truncates it to the
\* second.  In the specification of the methods the clock `now` counts whole
\* seconds, an instant is a number of 1/Second seconds, and a call reads the clock
\* at now seconds and some fraction.  Second is time.Second in instants.
Second == 2

\* The instants the clock can show
Instants == 0..(MaxTime * Second + Second - 1)

\* s.IsExpired() that counts the instant of expiry as expired
IsExpiredAtExpiry(s, t) ==
    [ret |-> s.ExpiresOn # NilTime /\ s.ExpiresOn # ZeroTime /\ s.ExpiresOn <= t, s |-> s]

\* s.IsExpired() with time.Now() = t: what it returns and the session after the call
IsExpired(s, t) ==
    [ret |-> s.ExpiresOn # NilTime /\ s.ExpiresOn # ZeroTime /\ s.ExpiresOn < t, s |-> s]

\* t.Truncate(d)
Truncate(t, d) == t - (t % d)

\* s.Age() that does not look for the zero time
AgeOfZeroTime(s, t) ==
    [ret |-> IF s.CreatedAt # NilTime THEN Truncate(t, Second) - s.CreatedAt ELSE 0, s |-> s]

\* s.Age() with time.Now() = t: what it returns and the session after the call
Age(s, t) ==
    [ret |-> IF s.CreatedAt # NilTime /\ s.CreatedAt # ZeroTime
             THEN Truncate(t, Second) - s.CreatedAt ELSE 0,
     s |-> s]

\* The sessions the methods are called on: CreatedAt and ExpiresOn nil, zero or any
\* instant
MethodSessions ==
    {[Alice1 EXCEPT !.CreatedAt = c, !.ExpiresOn = e] :
        c \in {NilTime, ZeroTime} \cup Instants, e \in {NilTime, ZeroTime} \cup Instants}

\* s.IsExpired() on a session, the clock frac instants into the second
IsExpiredStep ==
    /\ op.name = "idle"
    /\ \E s \in MethodSessions, frac \in 0..(Second - 1) :
       \E r \in {IsExpired(s, now * Second + frac)} :
          op' = [name |-> "IsExpired", s |-> s, t |-> now * Second + frac,
                 ret |-> r.ret, after |-> r.s]
    /\ UNCHANGED <<now, cipher, cache, randCtr, jar, written, cleared, mintLog>>

\* s.Age() on a session, the clock frac instants into the second
AgeStep ==
    /\ op.name = "idle"
    /\ \E s \in MethodSessions, frac \in 0..(Second - 1) :
       \E r \in {Age(s, now * Second + frac)} :
          op' = [name |-> "Age", s |-> s, t |-> now * Second + frac,
                 ret |-> r.ret, after |-> r.s]
    /\ UNCHANGED <<now, cipher, cache, randCtr, jar, written, cleared, mintLog>>

\* The hash algorithms a signature is made with
SHA256 == <<"sha256">>

SHA1 == <<"sha1">>

\* The value of the test, and the value it checks the signature against
TestValue == <<"v", "a", "l">>

Tampered == <<"t", "a", "m", "p", "e", "r", "e", "d">>

\* The cookies Validate is given: a value with a timestamp (in seconds, up to one
\* second ahead of the last the clock shows) and a signature made with either hash,
\* under the secret or another one, over the value or over another one; and a
\* cookie of two parts
MethodCookies ==
    {[Name |-> CookieName,
      Value |-> <<TestValue, Itoa(ts), cookieSignature(a, k, CookieName, sv, Itoa(ts))>>] :
        a \in {SHA256, SHA1}, k \in {CookieSecret, <<"o">>}, sv \in {TestValue, Tampered},
        ts \in 0..(MaxTime + 1)}
    \cup {[Name |-> CookieName, Value |-> <<TestValue, Itoa(ts)>>] : ts \in 0..MaxTime}

\* encryption.Validate(cookie, secret, store.CookieOptions.Expire) of a cookie
ValidateStep ==
    /\ op.name = "idle"
    /\ \E c \in MethodCookies :
       \E v \in {Validate(c, CookieSecret, Expire, now)} :
          op' = [name |-> "Validate", cookie |-> c, t |-> now, maxAge |-> Expire,
                 ok |-> v.ok, val |-> v.val, ts |-> v.ts]
    /\ UNCHANGED <<now, cipher, cache, randCtr, jar, written, cleared, mintLog>>

\* TestSignAndValidate: a signature made with one hash over a value is checked
\* against a value
CheckSignatureStep ==
    /\ op.name = "idle"
    /\ \E a \in {SHA256, SHA1}, signed \in {TestValue, Tampered}, checked \in {TestValue, Tampered},
          epoch \in {Itoa(ts) : ts \in 0..MaxTime} :
          op' = [name |-> "checkSignature", algo |-> a, signed |-> signed, checked |-> checked,
                 epoch |-> epoch,
                 ret |-> checkSignature(cookieSignature(a, CookieSecret, CookieName, signed, epoch),
                                        CookieSecret, CookieName, checked, epoch)]
    /\ UNCHANGED <<now, cipher, cache, randCtr, jar, written, cleared, mintLog>>

\* A second passes
SecondTick ==
    /\ op.name = "idle"
    /\ now < MaxTime
    /\ now' = now + 1
    /\ UNCHANGED <<cipher, cache, randCtr, jar, written, cleared, mintLog, op>>

\* --- the cipher (cipher_test.go)

\* The secrets of the tests: 32 bytes, and 16 bytes
Key32 == [i \in 1..32 |-> "k"]

Key16 == [i \in 1..16 |-> "b"]

\* encryption.NewCipher(secret): [err, cipher]; the cipher is its secret
NewCipher(secret) ==
    IF AesKeyOk(secret) THEN [err |-> NoErr, cipher |-> <<secret>>]
    ELSE [err |-> "crypto/aes: invalid key size", cipher |-> Nil]

\* EncryptInto that encrypts whatever the reference holds
EncryptIntoAlways(c, ptr) ==
    IF ptr = Nil THEN [err |-> NoErr, ptr |-> ptr]
    ELSE [err |-> NoErr, ptr |-> <<Encrypt(c, ptr[1])>>]

\* Cipher.EncryptInto(s *string): [err, ptr], ptr the reference after the call
EncryptInto(c, ptr) ==
    IF ptr = Nil \/ ptr[1] = EmptyField THEN [err |-> NoErr, ptr |-> ptr]
    ELSE [err |-> NoErr, ptr |-> <<Encrypt(c, ptr[1])>>]

\* Cipher.DecryptInto(s *string): [err, ptr]
DecryptInto(c, ptr) ==
    IF ptr = Nil \/ ptr[1] = EmptyField THEN [err |-> NoErr, ptr |-> ptr]
    ELSE IF ~DecryptOk(c, ptr[1]) THEN [err |-> "decrypt failed", ptr |-> ptr]
    ELSE [err |-> NoErr, ptr |-> <<Decrypt(c, ptr[1])>>]

\* The plaintexts of the tests: a token, the empty string, and a string that is
\* itself a ciphertext of another key
Plaintexts == {Plain("my access token"), EmptyField, Encrypt("other-secret", Plain("my access token"))}

\* TestEncodeAndDecodeAccessToken: c.Encrypt(token), then c.Decrypt of the result
CipherStep ==
    /\ op.name = "idle"
    /\ \E secret \in {Key32, Key16, <<"s", "h", "o", "r", "t">>}, pt \in Plaintexts :
       \E c \in {NewCipher(secret)} :
          op' = IF c.err # NoErr
                THEN [name |-> "NewCipher", secret |-> secret, err |-> c.err, cipher |-> c.cipher]
                ELSE [name |-> "Cipher", secret |-> secret, pt |-> pt,
                      encoded |-> Encrypt(c.cipher[1], pt),
                      ok |-> DecryptOk(c.cipher[1], Encrypt(c.cipher[1], pt)),
                      decoded |-> Decrypt(c.cipher[1], Encrypt(c.cipher[1], pt))]
    /\ UNCHANGED <<now, cipher, cache, randCtr, jar, written, cleared, mintLog>>

\* TestEncodeIntoAndDecodeIntoAccessToken: c.EncryptInto(&token), then
\* c.DecryptInto(&token), on a token, on "" and on nil
IntoStep ==
    /\ op.name = "idle"
    /\ \E secret \in {Key32, Key16}, ptr \in {Nil} \cup {<<pt>> : pt \in Plaintexts} :
       \E e \in {EncryptInto(secret, ptr)} :
       \E d \in {DecryptInto(secret, e.ptr)} :
          op' = [name |-> "Into", secret |-> secret, ptr |-> ptr, encErr |-> e.err,
                 encoded |-> e.ptr, decErr |-> d.err, decoded |-> d.ptr]
    /\ UNCHANGED <<now, cipher, cache, randCtr, jar, written, cleared, mintLog>>

\* --- the session store factory

\* options.RedisStoreOptions, as far as newRedisCmdable looks at them: the two
\* mode flags, whether ConnectionURL parses, and whether a CA file is named and
\* can be read
RedisOptions ==
    [UseSentinel : BOOLEAN, UseCluster : BOOLEAN, urlParses : BOOLEAN,
     CAPath : {"", "ca.pem"}, caReads : BOOLEAN]

\* newRedisCmdable(opts): [err, client]
newRedisCmdable(o) ==
    IF o.UseSentinel /\ o.UseCluster
    THEN [err |-> "options redis-use-sentinel and redis-use-cluster are mutually exclusive",
          client |-> Nil]
    ELSE IF o.UseSentinel THEN [err |-> NoErr, client |-> <<"failover">>]
    ELSE IF o.UseCluster THEN [err |-> NoErr, client |-> <<"cluster">>]
    ELSE IF ~o.urlParses THEN [err |-> "unable to parse redis url", client |-> Nil]
    ELSE IF o.CAPath # "" /\ ~o.caReads THEN [err |-> "failed to load", client |-> Nil]
    ELSE [err |-> NoErr, client |-> <<"single">>]

\* NewRedisSessionStore(opts, cookieOpts): [err, store]
NewRedisSessionStore(o, ci) ==
    Only({
        IF c.err # NoErr
        THEN [err |-> "error constructing redis client: " \o c.err, store |-> Nil]
        ELSE [err |-> NoErr,
              store |-> <<[type |-> "redis.SessionStore", Client |-> c.client[1],
                           CookieCipher |-> ci]>>]
        : c \in {newRedisCmdable(o)}})

\* cookie.NewCookieSessionStore(opts, cookieOpts): [err, store]
NewCookieSessionStore(ci) ==
    [err |-> NoErr, store |-> <<[type |-> "cookie.SessionStore", CookieCipher |-> ci]>>]

\* NewSessionStore that gives an unknown type the cookie store
NewSessionStoreDefaultsToCookie(type, o, ci) ==
    IF type = "redis" THEN NewRedisSessionStore(o, ci) ELSE NewCookieSessionStore(ci)

\* sessions.NewSessionStore(opts, cookieOpts), opts.Type = type: [err, store]
NewSessionStore(type, o, ci) ==
    IF type = "cookie" THEN NewCookieSessionStore(ci)
    ELSE IF type = "redis" THEN NewRedisSessionStore(o, ci)
    ELSE [err |-> "unknown session store type '" \o type \o "'", store |-> Nil]

\* The store types of the tests, and the empty type
StoreTypes == {"cookie", "redis", "invalid-type", ""}

\* sessions.NewSessionStore(opts, cookieOpts)
FactoryStep ==
    /\ op.name = "idle"
    /\ \E type \in StoreTypes, o \in RedisOptions :
       \E r \in {NewSessionStore(type, o, cipher)} :
          op' = [name |-> "NewSessionStore", type |-> type, opts |-> o, err |-> r.err,
                 store |-> r.store]
    /\ UNCHANGED <<now, cipher, cache, randCtr, jar, written, cleared, mintLog>>

\* --- the default provider (provider_default.go)

\* RefreshSessionIfNeeded that renews a session whose ExpiresOn is set
RefreshSessionIfExpiresOnSet(s) ==
    IF s.ExpiresOn # NilTime
    THEN [refreshed |-> TRUE, err |-> NoErr, s |-> [s EXCEPT !.ExpiresOn = NilTime]]
    ELSE [refreshed |-> FALSE, err |-> NoErr, s |-> s]

\* p.RefreshSessionIfNeeded(s): [refreshed, err], and the session after the call
RefreshSessionIfNeeded(s) == [refreshed |-> FALSE, err |-> NoErr, s |-> s]

\* TestRefresh: p.RefreshSessionIfNeeded on a session, the clock at a whole second
RefreshStep ==
    /\ op.name = "idle"
    /\ \E s \in MethodSessions :
       \E r \in {RefreshSessionIfNeeded(s)} :
          op' = [name |-> "Refresh", s |-> s, t |-> now * Second, refreshed |-> r.refreshed,
                 err |-> r.err, after |-> r.s]
    /\ UNCHANGED <<now, cipher, cache, randCtr, jar, written, cleared, mintLog>>

\* The bodies a token endpoint answers with: whether json.Unmarshal into the
\* struct with access_token succeeds, whether url.ParseQuery succeeds, and the
\* access_token they carry ("" when they carry none)
Bodies ==
    {[json |-> TRUE, form |-> FALSE, token |-> "token"],
     [json |-> TRUE, form |-> FALSE, token |-> ""],
     [json |-> FALSE, form |-> TRUE, token |-> "token"],
     [json |-> FALSE, form |-> TRUE, token |-> ""],
     [json |-> FALSE, form |-> FALSE, token |-> ""]}

\* p.Redeem(redirectURL, code) at time t, the token endpoint answering with status
\* and body: [err, session].  secretOk, doOk, readOk: GetClientSecret,
\* http.DefaultClient.Do and ioutil.ReadAll return no error
Redeem(code, secretOk, doOk, readOk, status, body, t) ==
    IF code = "" THEN [err |-> "missing code", session |-> Nil]
    ELSE IF ~secretOk THEN [err |-> "client secret", session |-> Nil]
    ELSE IF ~doOk THEN [err |-> "http", session |-> Nil]
    ELSE IF ~readOk THEN [err |-> "read", session |-> Nil]
    ELSE IF status # 200 THEN [err |-> "got status", session |-> Nil]
    ELSE IF body.json
    THEN [err |-> NoErr, session |-> <<[ZeroSession EXCEPT !.AccessToken = Plain(body.token)]>>]
    ELSE IF ~body.form THEN [err |-> "invalid URL escape", session |-> Nil]
    ELSE IF body.token # ""
    THEN [err |-> NoErr,
          session |-> <<[ZeroSession EXCEPT !.AccessToken = Plain(body.token), !.CreatedAt = t]>>]
    ELSE [err |-> "no access token found", session |-> Nil]

\* p.Redeem(redirectURL, code)
RedeemStep ==
    /\ op.name = "idle"
    /\ \E code \in {"", "code"}, secretOk \in BOOLEAN, doOk \in BOOLEAN, readOk \in BOOLEAN,
          status \in {200, 400}, body \in Bodies :
       \E r \in {Redeem(code, secretOk, doOk, readOk, status, body, now * Second)} :
          op' = [name |-> "Redeem", code |-> code, secretOk |-> secretOk, doOk |-> doOk,
                 readOk |-> readOk, status |-> status, body |-> body, err |-> r.err,
                 session |-> r.session]
    /\ UNCHANGED <<now, cipher, cache, randCtr, jar, written, cleared, mintLog>>

\* --- the receiver of EncodeSessionState

\* The session after an EncodeSessionState that encrypts the fields of the session
\* it is called on
EncodeReceiverInPlace(s, c) ==
    IF c = NoCipher THEN s
    ELSE EncryptField(EncryptField(EncryptField(EncryptField(EncryptField(EncryptField(
             s, "Email", c), "User", c), "PreferredUsername", c), "AccessToken", c),
             "IDToken", c), "RefreshToken", c)

\* The session s after s.EncodeSessionState(c): the method works on ss, a copy
\* (`ss = *s`) or a new struct, and assigns to no field of s
EncodeReceiver(s, c) == s

\* s.EncodeSessionState(store.CookieCipher) on a session the caller holds
EncodeCallStep ==
    /\ op.name = "idle"
    /\ \E s \in {StampCreatedAt(b, now * Second) : b \in BaseSessions} \cup BaseSessions :
          op' = [name |-> "EncodeCall", s |-> s, v |-> EncodeSessionState(s, cipher),
                 after |-> EncodeReceiver(s, cipher)]
    /\ UNCHANGED <<now, cipher, cache, randCtr, jar, written, cleared, mintLog>>

MethodNext ==
    \/ IsExpiredStep \/ AgeStep \/ ValidateStep \/ CheckSignatureStep \/ SecondTick \/ Return
    \/ CipherStep \/ IntoStep \/ FactoryStep
    \/ RefreshStep \/ RedeemStep \/ EncodeCallStep

MethodSpec == Init /\ [][MethodNext]_vars

\* C24: IsExpired is true when ExpiresOn is set, is not the zero time and lies
\* strictly before now; it is false when ExpiresOn is absent, zero, equal to now or
\* later than now; the session is the same after the call.
C24_IsExpired ==
    op.name = "IsExpired"
        => /\ op.after = op.s
           /\ op.s.ExpiresOn = NilTime => ~op.ret
           /\ op.s.ExpiresOn = ZeroTime => ~op.ret
           /\ op.s.ExpiresOn = op.t => ~op.ret
           /\ op.s.ExpiresOn > op.t => ~op.ret
           /\ (op.s.ExpiresOn \in Instants /\ op.s.ExpiresOn < op.t) => op.ret

C24_Witness ==
    /\ op.name = "IsExpired"
    /\ op.s.ExpiresOn = op.t
    /\ op.t % Second # 0
    /\ ~op.ret

C29_ValidateAccepts ==
    op.name = "Validate"
        => /\ op.ok => /\ Len(op.cookie.Value) = 3
                       /\ Atoi(op.cookie.Value[2]) <= op.t
                       /\ op.t - Atoi(op.cookie.Value[2]) <= op.maxAge
                       /\ \E a \in {SHA256, SHA1} :
                             op.cookie.Value[3] = <<a, CookieSecret, op.cookie.Name,
                                                    op.cookie.Value[1], op.cookie.Value[2]>>
                       /\ op.val = op.cookie.Value[1]
                       /\ op.ts = Atoi(op.cookie.Value[2])
           /\ op.t - Atoi(op.cookie.Value[2]) > op.maxAge => ~op.ok

C29_Witness ==
    /\ op.name = "Validate"
    /\ Len(op.cookie.Value) = 3
    /\ op.cookie.Value[3] = cookieSignature(SHA256, CookieSecret, CookieName, op.cookie.Value[1],
                                            op.cookie.Value[2])
    /\ op.t - Atoi(op.cookie.Value[2]) > op.maxAge
    /\ ~op.ok

\* C30: the signature check accepts a SHA-256 and a SHA-1 signature of the secret
\* over name, value and timestamp when the value checked is the value signed, and
\* rejects both when it is another value.
C30_CheckSignature ==
    op.name = "checkSignature" => (op.ret <=> op.signed = op.checked)

C30_Witness ==
    /\ op.name = "checkSignature"
    /\ op.algo = SHA1
    /\ op.signed = op.checked
    /\ op.ret

\* ------------------------------------------------------- concurrent handlers

\* Two handlers of the store run at once.  A handler touches the cache in one call
\* (Client.Set in Save, Client.Get in Load, Client.Del in Clear); what it does before
\* and after reads and writes nothing the other handler sees, so each handler is two
\* steps: up to its cache call, and from the cache call to its return.  Here op holds
\* one record per handler, and written is, per cache key, the Save whose Set was the
\* last applied and not deleted since.
Procs == {"p", "q"}

\* A handler that is not in a call
RaceIdle ==
    [pc |-> "idle", req |-> NoCookie, s |-> Nil, g |-> Nil, value |-> Nil, key |-> Nil,
     up |-> TRUE, err |-> NoErr, session |-> Nil, saw |-> Nil, overlap |-> {}, raced |-> FALSE]

RaceInit ==
    /\ now = 0
    /\ cipher \in {NoCipher, "cipher-secret"}
    /\ cache = EmptyCache
    /\ randCtr = 0
    /\ jar = {}
    /\ written = EmptyCache
    /\ cleared = {}
    /\ mintLog = <<>>
    /\ op = [p \in Procs |-> RaceIdle]

\* The requests a client may send: no cookie, a cookie Save handed out, or such a
\* cookie tampered with
RaceRequests ==
    {NoCookie} \cup {Cookie(e.val) : e \in jar} \cup {Cookie(TamperValue(e.val)) : e \in jar}

\* op after handler p has applied a write to key k: p is as in rec, and every other
\* handler between its call and its cache call has k among the keys written
\* meanwhile; a Save waiting to Set that key has raced with a Set, if the write is one
AfterWrite(p, rec, k, isSet) ==
    [q \in Procs |->
        IF q = p THEN rec
        ELSE IF op[q].pc \in {"Save.Set", "Load.Get", "Clear.Del"}
        THEN [op[q] EXCEPT !.overlap = @ \cup {k},
                           !.raced = @ \/ (isSet /\ op[q].pc = "Save.Set" /\ op[q].key = <<k>>)]
        ELSE op[q]]

\* Save up to Client.Set: CreatedAt stamped, the session encoded, the ticket taken
\* from the cookie or minted
SaveCall(p) ==
    /\ op[p].pc = "idle"
    /\ \E s \in BaseSessions, req \in RaceRequests :
       \E g \in {getTicket(req, randCtr, TRUE, now)} :
          /\ g.minted => randCtr < MaxTickets
          /\ randCtr' = IF g.minted THEN randCtr + 1 ELSE randCtr
          /\ op' = [op EXCEPT ![p] =
                       [RaceIdle EXCEPT !.pc = "Save.Set", !.req = req,
                                        !.s = <<StampCreatedAt(s, now)>>, !.g = <<g>>,
                                        !.value = <<EncodeSessionState(StampCreatedAt(s, now), cipher)>>,
                                        !.key = <<asHandle(g.ticket[1], CookieName)>>]]
    /\ UNCHANGED <<now, cipher, cache, jar, written, cleared, mintLog>>

\* Save from Client.Set to its return
SaveSet(p) ==
    /\ op[p].pc = "Save.Set"
    /\ \E up \in BOOLEAN :
       \E r \in {storeTicket(cache, op[p].value[1], Expire, op[p].g[1], up, now)} :
       \E c \in {makeCookie(r.ticketString, Expire, op[p].s[1].CreatedAt)} :
          /\ r.err = NoErr =>
                Cardinality(jar \cup {[who |-> "any", val |-> c.Value, handle |-> op[p].key[1]]})
                    <= MaxCookies
          /\ cache' = r.cache
          /\ jar' = IF r.err = NoErr
                    THEN jar \cup {[who |-> "any", val |-> c.Value, handle |-> op[p].key[1]]}
                    ELSE jar
          /\ written' = IF r.err = NoErr
                        THEN (op[p].key[1] :> [s |-> op[p].s[1], by |-> p,
                                               secret |-> op[p].g[1].ticket[1].Secret])
                             @@ written
                        ELSE written
          /\ op' = IF r.err = NoErr
                   THEN AfterWrite(p, [op[p] EXCEPT !.pc = "Save.done", !.up = up, !.err = r.err],
                                   op[p].key[1], TRUE)
                   ELSE [op EXCEPT ![p] = [@ EXCEPT !.pc = "Save.done", !.up = up, !.err = r.err]]
    /\ UNCHANGED <<now, cipher, randCtr, cleared, mintLog>>

\* Load up to Client.Get: the cookie is read, validated and decoded to a ticket, or
\* Load returns
LoadCall(p) ==
    /\ op[p].pc = "idle"
    /\ \E req \in RaceRequests :
          op' = [op EXCEPT ![p] =
                    IF req = Nil
                    THEN [RaceIdle EXCEPT !.pc = "Load.done", !.req = req, !.err =
                             "error loading session: http: named cookie not present"]
                    ELSE Only({
                        IF ~v.ok
                        THEN [RaceIdle EXCEPT !.pc = "Load.done", !.req = req,
                                              !.err = "cookie signature not valid"]
                        ELSE Only({
                            IF d.err # NoErr
                            THEN [RaceIdle EXCEPT !.pc = "Load.done", !.req = req,
                                                  !.err = "error loading session"]
                            ELSE [RaceIdle EXCEPT !.pc = "Load.Get", !.req = req, !.g = <<d>>,
                                                  !.key = <<asHandle(d.ticket[1], CookieName)>>]
                            : d \in {decodeTicket(CookieName, v.val)}})
                        : v \in {Validate(req[1], CookieSecret, Expire, now)}})]
    /\ UNCHANGED <<now, cipher, cache, randCtr, jar, written, cleared, mintLog>>

\* Load from Client.Get to its return
LoadGet(p) ==
    /\ op[p].pc = "Load.Get"
    /\ \E up \in BOOLEAN :
       \E l \in {loadBytes(op[p].g[1].ticket[1], ClientGet(cache, op[p].key[1], up), cipher)} :
          op' = [op EXCEPT ![p] =
                    [@ EXCEPT !.pc = "Load.done", !.up = up,
                              !.err = IF l.err # NoErr THEN "error loading session" ELSE NoErr,
                              !.session = l.session,
                              !.saw = IF op[p].key[1] \in DOMAIN written
                                      THEN <<written[op[p].key[1]]>> ELSE Nil]]
    /\ UNCHANGED <<now, cipher, cache, randCtr, jar, written, cleared, mintLog>>

\* Clear up to Client.Del: the clearing cookie is set, the cookie is read, validated
\* and decoded, or Clear returns
ClearCall(p) ==
    /\ op[p].pc = "idle"
    /\ \E req \in RaceRequests :
          op' = [op EXCEPT ![p] =
                    IF req = Nil
                    THEN [RaceIdle EXCEPT !.pc = "Clear.done", !.req = req]
                    ELSE Only({
                        IF ~v.ok
                        THEN [RaceIdle EXCEPT !.pc = "Clear.done", !.req = req,
                                              !.err = "cookie signature not valid"]
                        ELSE Only({
                            IF d.ticket = Nil
                            THEN [RaceIdle EXCEPT !.pc = "Clear.done", !.req = req]
                            ELSE [RaceIdle EXCEPT !.pc = "Clear.Del", !.req = req, !.g = <<d>>,
                                                  !.key = <<asHandle(d.ticket[1], CookieName)>>]
                            : d \in {decodeTicket(CookieName, v.val)}})
                        : v \in {Validate(req[1], CookieSecret, Expire, now)}})]
    /\ UNCHANGED <<now, cipher, cache, randCtr, jar, written, cleared, mintLog>>

\* Clear from Client.Del to its return
ClearDel(p) ==
    /\ op[p].pc = "Clear.Del"
    /\ \E up \in BOOLEAN :
       \E r \in {clearTicket(cache, op[p].g[1], up, makeCookie(EmptyStr, ClearExpires, now))} :
          /\ cache' = r.cache
          /\ written' = IF r.err = NoErr /\ op[p].key[1] \in DOMAIN written
                        THEN Without(written, op[p].key[1]) ELSE written
          /\ op' = IF r.err = NoErr
                   THEN AfterWrite(p, [op[p] EXCEPT !.pc = "Clear.done", !.up = up, !.err = r.err],
                                   op[p].key[1], FALSE)
                   ELSE [op EXCEPT ![p] = [@ EXCEPT !.pc = "Clear.done", !.up = up, !.err = r.err]]
    /\ UNCHANGED <<now, cipher, randCtr, jar, cleared, mintLog>>

\* The caller of handler p takes the result of the call
RaceReturn(p) ==
    /\ op[p].pc \in {"Save.done", "Load.done", "Clear.done"}
    /\ op' = [op EXCEPT ![p] = RaceIdle]
    /\ UNCHANGED <<now, cipher, cache, randCtr, jar, written, cleared, mintLog>>

RaceNext ==
    \E p \in Procs :
        \/ SaveCall(p) \/ SaveSet(p) \/ LoadCall(p) \/ LoadGet(p)
        \/ ClearCall(p) \/ ClearDel(p) \/ RaceReturn(p)

RaceSpec == RaceInit /\ [][RaceNext]_vars

\* C26: Saves that race on one ticket are last-write-wins: the entry of a key is
\* whole the encrypted state of the Save whose Set was applied last, and a Load
\* whose Get follows returns that state.
C26_LastWriteWins ==
    /\ \A k \in DOMAIN written :
          /\ k \in DOMAIN cache
          /\ cache[k].val = CFBEncrypt(written[k].secret, written[k].secret,
                                       EncodeSessionState(written[k].s, cipher))
    /\ \A p \in Procs :
          (op[p].pc = "Load.done" /\ op[p].up /\ op[p].saw # Nil)
              => /\ op[p].err = NoErr
                 /\ op[p].session # Nil
                 /\ SameFields(op[p].session[1], UserFromEmail(op[p].saw[1].s))

\* Two Saves of different sessions were between call and Set on one ticket at the
\* same time; the one applied last has returned, and a Load reads its state
C26_Witness ==
    \E p, q \in Procs :
        /\ p # q
        /\ op[q].pc = "Save.done" /\ op[q].err = NoErr
        /\ op[q].raced
        /\ op[q].key[1] \in DOMAIN written
        /\ written[op[q].key[1]].by = q
        /\ op[p].pc = "Load.done" /\ op[p].err = NoErr
        /\ op[p].key = op[q].key
        /\ op[p].saw # Nil /\ op[p].saw[1].by = q
        /\ op[p].session[1].Email = op[q].s[1].Email
        /\ op[q].s[1].Email = Plain("bob@example.com")

\* The entry of key k differs between the two states of a step
Changed(k) ==
    \/ (k \in DOMAIN cache) # (k \in DOMAIN cache')
    \/ k \in DOMAIN cache /\ k \in DOMAIN cache' /\ cache[k] # cache'[k]

\* The cache with the entries of every key but k removed
OnlyKey(c, k) == [x \in DOMAIN c \cap {k} |-> c[x]]

\* C27: handlers of different tickets do not interact: a step changes the entry of
\* a key only as the Set of a Save or the Del of a Clear of that key's ticket, and a
\* Load returns what it would return were its key the only one in the cache.
C27_TicketsIndependent ==
    [][/\ \A k \in DOMAIN cache \cup DOMAIN cache' :
             Changed(k) => \E p \in Procs : /\ op[p].pc \in {"Save.Set", "Clear.Del"}
                                            /\ op[p].key = <<k>>
                                            /\ op'[p].pc # op[p].pc
       /\ \A p \in Procs :
             (op[p].pc = "Load.Get" /\ op'[p].pc = "Load.done")
                 => \E l \in {Load(OnlyKey(cache, op[p].key[1]), op[p].req, cipher, op'[p].up, now)} :
                       /\ op'[p].err = l.err
                       /\ op'[p].session = l.session]_vars

\* A Load of one ticket has returned its session; between its call and its Get a
\* Save of another ticket was applied, and its entry is in the cache
C27_Witness ==
    \E p, q \in Procs :
        /\ op[p].pc = "Load.done" /\ op[p].up /\ op[p].err = NoErr
        /\ op[p].overlap # {} /\ op[p].key[1] \notin op[p].overlap
        /\ op[q].pc = "Save.done" /\ op[q].err = NoErr
        /\ op[q].key # op[p].key
        /\ op[q].key[1] \in op[p].overlap
        /\ op[q].key[1] \in DOMAIN cache

\* The request of handler p carries a cookie that passes Validate
RaceValid(p) == op[p].req # Nil /\ Validate(op[p].req[1], CookieSecret, Expire, now).ok

\* The cache key of the ticket the cookie's value of handler p's request decodes
\* to, validated or not; Nil if it decodes to none
CookieKey(p) ==
    IF op[p].req = Nil \/ Len(op[p].req[1].Value) = 0 THEN Nil
    ELSE Only({IF d.err # NoErr THEN Nil ELSE <<asHandle(d.ticket[1], CookieName)>>
               : d \in {decodeTicket(CookieName, op[p].req[1].Value[1])}})

\* C28: no handler decodes a ticket from, or calls the cache under a key derived
\* from, a cookie value that has not passed Validate: Load and Clear return before
\* any cache call, and Save calls Set under the key of a minted ticket.
C28_ValidateFirst ==
    \A p \in Procs :
        (op[p].req # Nil /\ ~RaceValid(p))
            => /\ op[p].key # Nil => op[p].key # CookieKey(p)
               /\ op[p].pc \notin {"Load.Get", "Clear.Del"}
               /\ op[p].pc \in {"Load.done", "Clear.done"}
                     => /\ op[p].key = Nil /\ op[p].g = Nil
                        /\ op[p].err = "cookie signature not valid"
               /\ op[p].pc \in {"Save.Set", "Save.done"} => op[p].g[1].minted

\* A Save has written under a minted key while its request carried a tampered
\* cookie whose value decodes to the ticket of an entry in the cache
C28_Witness ==
    \E p \in Procs :
        /\ op[p].pc = "Save.done" /\ op[p].err = NoErr
        /\ op[p].req # Nil /\ ~RaceValid(p)
        /\ CookieKey(p) # Nil
        /\ \E e \in jar : <<e.handle>> # CookieKey(p) /\ e.handle \in DOMAIN cache
        /\ op[p].key[1] \in DOMAIN cache

\* C31: with a cipher of a valid key, Decrypt(Encrypt(p)) returns p and no error,
\* and Encrypt(p) is not p; EncryptInto then DecryptInto give back a non-empty
\* string, having changed it in between, and both return no error and leave the
\* reference as it is when it holds "" or is nil.
C31_CipherRoundTrip ==
    /\ op.name = "Cipher"
          => /\ op.ok
             /\ op.decoded = op.pt
             /\ op.encoded # op.pt
    /\ op.name = "Into"
          => /\ op.encErr = NoErr /\ op.decErr = NoErr
             /\ op.decoded = op.ptr
             /\ (op.ptr = Nil \/ op.ptr = <<EmptyField>>) => op.encoded = op.ptr
             /\ (op.ptr # Nil /\ op.ptr # <<EmptyField>>) => op.encoded # op.ptr

C31_Witness ==
    /\ op.name = "Into"
    /\ op.ptr = <<EmptyField>>
    /\ op.encoded = <<EmptyField>>
    /\ op.encErr = NoErr /\ op.decErr = NoErr

C33_NeverRefreshes ==
    op.name = "Refresh"
        => /\ ~op.refreshed
           /\ op.err = NoErr
           /\ op.after = op.s

C33_Witness ==
    /\ op.name = "Refresh"
    /\ op.s.ExpiresOn \in Instants
    /\ op.s.ExpiresOn < op.t
    /\ ~op.refreshed /\ op.after = op.s

\* C38: after EncodeSessionState, with or without a cipher, every field of the
\* session it was called on has the value it had before the call.
C38_EncodeLeavesSession ==
    op.name = "EncodeCall" => \A f \in Fields : op.after[f] = op.s[f]

C38_Witness ==
    /\ op.name = "EncodeCall"
    /\ cipher # NoCipher
    /\ op.v.obj["AccessToken"] # op.s.AccessToken
    /\ op.after.AccessToken = Plain("AccessToken")
    /\ op.after.CreatedAt = NilTime

\* C39: (as the claim states it) for a session whose CreatedAt is not later than
\* the current time, Age returns a duration that is not negative.
C39_AgeNonNegative ==
    (op.name = "Age" /\ op.s.CreatedAt \in Instants /\ op.s.CreatedAt <= op.t)
        => op.ret >= 0

\* C40: (as the claim states it) Redeem of an empty code returns "missing code" and
\* no session; a Redeem that returns no error returns a session with a non-empty
\* access token, and one that returns an error returns no session.
C40_RedeemErrorOrSession ==
    op.name = "Redeem"
        => /\ op.code = "" => (op.err = "missing code" /\ op.session = Nil)
           /\ op.err = NoErr => (op.session # Nil /\ op.session[1].AccessToken # EmptyField)
           /\ op.err # NoErr => op.session = Nil

\* C34: (as the claim states it) once a Clear has deleted the entry of a ticket, no
\* Save, later or running at the same time, writes an entry under that ticket
\* again: the key a Clear has deleted is not in the cache when the Clear returns.
C34_LogoutDurable ==
    \A p \in Procs :
        (op[p].pc = "Clear.done" /\ op[p].err = NoErr /\ op[p].key # Nil)
            => op[p].key[1] \notin DOMAIN cache

\* C35: a Load with the cookie of the last Save of a session fails once now minus
\* the session's CreatedAt exceeds Expire, whenever the session was saved last and
\* whatever TTL the entry has left.
C35_LifetimeFromCreatedAt ==
    (op.name = "Load" /\ ReqLastSaved /\ now - written[ReqHandle].s.CreatedAt > Expire)
        => op.err # NoErr /\ op.session = Nil

\* A Load fails although the session was saved again after its CreatedAt and its
\* entry is still in the cache
C35_Witness ==
    /\ op.name = "Load" /\ op.up /\ ReqLastSaved
    /\ now - written[ReqHandle].s.CreatedAt > Expire
    /\ written[ReqHandle].at > written[ReqHandle].s.CreatedAt
    /\ ReqHandle \in DOMAIN cache
    /\ cache[ReqHandle].exp > now
    /\ op.err # NoErr

C37_LoadReadOnly ==
    [][(op.name = "idle" /\ op'.name = "Load") => (cache' = cache /\ jar' = jar)]_vars

\* A Load has returned a session and the entry it read is in the cache with the TTL
\* the Save gave it
C37_Witness ==
    /\ op.name = "Load" /\ op.err = NoErr
    /\ ReqLastSaved
    /\ now > written[ReqHandle].at
    /\ cache[ReqHandle].exp = written[ReqHandle].at + Expire

====
